---- MODULE Spec2Model ----
(***************************************************************************)
(* graph-querying-service: the Neo4j connection singleton, the database    *)
(* manager with its retry policy and scoped sessions, the GraphRAG engine  *)
(* pipelines with the query optimizer and the cache, and the               *)
(* authentication gate.                                                    *)
(*                                                                         *)
(* Route handlers are `async def` functions that call the synchronous      *)
(* engine directly, so one request's pipeline runs to its end before the   *)
(* next one starts: each layer is a sequential state machine.  Every layer *)
(* has its own specification (SpecDatabase, SpecEngine, SpecAuth); the     *)
(* variables of the other layers stay at their initial values.             *)
(***************************************************************************)
EXTENDS Integers, Sequences, FiniteSets, TLC

VARIABLES
    \* ---- Neo4jConnection (src/app/database/neo4j.py)
    driver,           \* Neo4jConnection._driver: 0 is None, else the driver's id
    created,          \* number of driver objects GraphDatabase.driver has returned
    closedDrivers,    \* ids of the drivers on which close() was called
    connRes,          \* how the last connect/close call ended
    connectSucceeded, \* a connect call has returned normally after verifying
    \* ---- DatabaseManager (src/app/database/manager.py)
    dbop,             \* the manager operation in progress (or the last one)
    dbpc,             \* its position: idle, enter, body, exit, backoff
    attempt,          \* tenacity's attempt number of the current call
    tries,            \* times the wrapped function body was entered in this call
    succAt,           \* attempt at which the body returned normally (0: none)
    cur,              \* the session the current with-block holds (0: none)
    bodyOk,           \* whether the with-block's body ended normally
    nsess,            \* sessions opened so far (ids 1..nsess)
    sessions,         \* ids of the open sessions
    closes,           \* closes[s]: times session.close() ran on session s
    dbout,            \* what the finished call returned or raised
    surfaced,         \* the error envelope the HTTP layer renders for dbout
    \* ---- settings read by the engine (src/app/core/config.py)
    enable_read_only_mode,
    enable_query_validation,
    cache_enabled,    \* CacheService.enabled
    \* ---- CacheService (src/app/services/cache_service.py)
    cache,            \* the store: key |-> the JSON document stored under it
    \* ---- GraphRAGEngine (src/app/graphrag/engine.py)
    kind,             \* the pipeline of the current (or last) call
    epc,              \* its position; "idle" when no call is running
    question, context, use_cache,   \* arguments of process_natural_query
    cypher,           \* the local variable `cypher`
    results,          \* the rows execute_cypher returned
    answer,           \* natural_answer
    hit,              \* the call was served from the cache
    eret,             \* what the call returned or raised
    trace,            \* the calls the engine made to its collaborators, in order
    last,             \* the last natural call that returned after a cache miss with
                      \* caching on: its key, whether its cache write was stored
                      \* and, if so, what it returned
    \* ---- authentication (src/app/middleware/auth.py, src/app/api/dependencies.py)
    api_key_enabled,  \* settings.api_key_enabled
    api_keys,         \* settings.api_keys
    apc,              \* position of the current request: idle, route
    req,              \* the request: path, X-API-Key and Authorization headers
    state_user,       \* request.state.user
    state_api_key,    \* request.state.api_key
    dep_key,          \* what the get_api_key dependency returned
    handler_ran,      \* the route handler of the request ran
    status,           \* status of the response (0: none yet)
    \* ---- the rest of the HTTP stack (src/app/main.py, src/app/middleware)
    request_id,       \* request.state.request_id (0: none assigned)
    nreq,             \* correlation ids handed out so far
    exc,              \* the exception travelling up the stack ("none": a response is)
    body,             \* the response body: success, error_code, message
    headers,          \* the headers the stack added to the response
    seen,             \* the middlewares the request went through, in order
    \* ---- rate limiting (src/app/middleware/rate_limit.py)
    clients,          \* the (key, route) pairs that send requests in this run
    hits,             \* the limiter's counters of the current window, by (key, scope)
    served,           \* requests the handler served in the current window, by (key, route)
    rate_limit_enabled,  \* settings.rate_limit_enabled
    rl_req, rl_route, \* sender and route of the last request
    rl_status,        \* its outcome: 200 or 429 (0: none yet)
    rl_handler,       \* and the exception handler that rendered a 429
    \* ---- startup and shutdown (src/app/main.py, lifespan)
    lifecycle,        \* created, get_schema, schema_wait, get_info, info_wait,
                      \* serving, aborted, stopped
    startup_error,    \* the exception that aborted startup
    \* ---- the cache store seen through CacheService (src/app/services/cache_service.py)
    ttl_left,         \* seconds each entry of `cache` still has to live
    advances,         \* steps of time taken so far
    cset,             \* the last CacheService.set call and what it returned
    cget,             \* the last CacheService.get call and what it returned
    \* ---- Settings (src/app/core/config.py)
    settings,         \* the Settings instance: its secrets and the cache fields
    config_dict,      \* what get_config_dict returned (<< >>: not called yet)
    \* ---- TokenManager (src/app/core/security.py)
    now,              \* the clock, in minutes
    ticks,            \* steps of the clock taken so far
    encoded_jwt,      \* the last token issued: its claims and what it was made from
    verified,         \* the last verify_token call and how it ended
    \* ---- the two read-only checks (graphrag/query_optimizer.py, utils/validators.py)
    cypher_text,      \* the query text both checks are given
    optimizer_verdict,   \* what QueryOptimizer.is_read_only returned for it
    validator_verdict,   \* what CypherValidator.is_read_only returned for it
    \* ---- GraphSchema and GraphSchemaBuilder (src/app/schemas/graph_schema.py)
    schema,           \* the GraphSchema: nodes, relationships, constraints, indexes
    built,            \* how the last build() ended: none, returned, raised
    add_raised,       \* the last add_* call raised a validation error
    fp_pc,            \* find_path: idle, loop, done
    fp_args,          \* its arguments (source, target)
    queue,            \* its deque of (current, path)
    visited,          \* its visited set
    fp_result,        \* what it returned: a path, or None
    \* ---- the health endpoint and what it probes (src/app/api/v1/endpoints/health.py)
    redis_enabled,    \* settings.redis_enabled
    redis_available,  \* REDIS_AVAILABLE: the redis client library was imported
    store_reachable,  \* the cache store answers a ping
    neo4j_up,         \* the database answers RETURN 1
    llm_up,           \* the language model answers a completion request
    services,         \* unbuilt until the module-level CacheService() has run
    health            \* the last health response and the checks behind it

connVars == <<driver, created, closedDrivers, connRes, connectSucceeded>>
dbVars == <<dbop, dbpc, attempt, tries, succAt, cur, bodyOk, nsess, sessions,
            closes, dbout, surfaced>>
settingsVars == <<enable_read_only_mode, enable_query_validation, cache_enabled>>
engVars == <<settingsVars, cache, kind, epc, question, context, use_cache, cypher,
             results, answer, hit, eret, trace, last>>
authVars == <<api_key_enabled, api_keys, apc, req, state_user, state_api_key,
              dep_key, handler_ran, status>>
authDataVars == <<api_key_enabled, api_keys, req, state_user, state_api_key,
                  dep_key, handler_ran, status>>
httpVars == <<request_id, nreq, exc, body, headers, seen>>
rateVars == <<clients, hits, served, rate_limit_enabled, rl_req, rl_route, rl_status,
              rl_handler>>
startVars == <<lifecycle, startup_error>>
cacheVars == <<ttl_left, advances, cset, cget>>
configVars == <<settings, config_dict>>
tokenVars == <<now, ticks, encoded_jwt, verified>>
checkVars == <<cypher_text, optimizer_verdict, validator_verdict>>
builderVars == <<schema, built, add_raised>>
pathVars == <<fp_pc, fp_args, queue, visited, fp_result>>
schemaVars == <<builderVars, pathVars>>
healthVars == <<redis_enabled, redis_available, store_reachable, neo4j_up, llm_up,
                services, health>>
libVars == <<configVars, tokenVars, checkVars, schemaVars, healthVars>>
vars == <<connVars, dbVars, engVars, authVars, httpVars, rateVars, startVars, cacheVars, libVars>>

(***************************************************************************)
(* Bounds of the model                                                     *)
(***************************************************************************)
MaxDrivers == 2
MaxSessions == 5
MaxRequests == 2
Overrun == 1
MaxAdvances == 2
MaxTicks == 2
MaxWords == 3
MaxItems == 1

(***************************************************************************)
(* Program constants                                                       *)
(***************************************************************************)
\* settings.access_token_expire_minutes and refresh_token_expire_days (in minutes)
access_token_expire_minutes == 30
refresh_token_expire_minutes == 10080

\* stop_after_attempt(3) of the retry decorator on execute_query
stop_after_attempt == 3

DbOps == {"execute_query", "validate_query", "get_schema", "get_database_info",
          "execute_read_transaction", "execute_write_transaction",
          "get_db_session"}

(***************************************************************************)
(* Exceptions and their translation to the wire (core/exceptions.py,       *)
(* middleware/error_handler.py)                                            *)
(***************************************************************************)
\* The domain errors: subclasses of BaseAPIException, with the status code and
\* the error code their constructors set.
BaseAPIException ==
    [QueryExecutionError |-> [status |-> 500, error_code |-> "QUERY_EXECUTION_ERROR"],
     InvalidCypherQueryError |-> [status |-> 400, error_code |-> "INVALID_CYPHER_QUERY"],
     Neo4jConnectionError |-> [status |-> 500, error_code |-> "NEO4J_CONNECTION_ERROR"]]

\* Everything a manager call can raise to its caller.  RetryError is tenacity's,
\* AttributeError is Python's, DriverError stands for the neo4j driver's errors.
Raised == {"QueryExecutionError", "InvalidCypherQueryError", "Neo4jConnectionError",
           "RetryError", "AttributeError", "DriverError"}

\* setup_error_handlers: a domain error is rendered with its own status and
\* code; anything that is no HTTP exception gets the generic 500 envelope.
setup_error_handlers(err) ==
    IF err \in DOMAIN BaseAPIException
    THEN [status |-> BaseAPIException[err].status,
          error_code |-> BaseAPIException[err].error_code]
    ELSE [status |-> 500, error_code |-> "INTERNAL_ERROR"]

NoResponse == [status |-> 0, error_code |-> "none"]

\* What the HTTP layer renders when a manager call ends with `out`: the
\* callers (Neo4jService.execute_cypher, the engine, the endpoint) catch
\* nothing, or log and re-raise.
Surface(out) == IF out \in Raised THEN setup_error_handlers(out) ELSE NoResponse

(***************************************************************************)
(* Neo4jConnection                                                         *)
(***************************************************************************)
liveDrivers == (1..created) \ closedDrivers

\* The `driver` property.
driver_property == IF driver = 0 THEN "Neo4jConnectionError" ELSE "driver"

\* connect() when _driver is None: build the driver, then verify connectivity.
\* driverOk: GraphDatabase.driver returned; verifyOk: verify_connectivity did.
connect_new(driverOk, verifyOk) ==
    IF ~driverOk
    THEN /\ connRes' = "Neo4jConnectionError"
         /\ UNCHANGED <<driver, created, closedDrivers, connectSucceeded>>
    ELSE /\ created < MaxDrivers
         /\ created' = created + 1
         /\ driver' = created + 1
         /\ connRes' = IF verifyOk THEN "connected" ELSE "Neo4jConnectionError"
         /\ connectSucceeded' = (connectSucceeded \/ verifyOk)
         /\ UNCHANGED closedDrivers

\* connect() without its `if self._driver is not None: return`.
connect_unguarded(driverOk, verifyOk) == connect_new(driverOk, verifyOk)

\* The guard of connect(): an existing driver makes the call a logged no-op.
connect_guarded(driverOk, verifyOk) ==
    IF driver # 0
    THEN /\ connRes' = "already_connected"
         /\ UNCHANGED <<driver, created, closedDrivers, connectSucceeded>>
    ELSE connect_new(driverOk, verifyOk)

connect ==
    /\ dbpc = "idle"
    /\ \E driverOk \in BOOLEAN, verifyOk \in BOOLEAN :
          connect_guarded(driverOk, verifyOk)
    /\ UNCHANGED <<dbVars, engVars, authVars, httpVars, rateVars, startVars, cacheVars, libVars>>

\* is_connected(): no driver means False; otherwise the outcome of
\* verify_connectivity (verifyOk).
is_connected(verifyOk) == driver # 0 /\ verifyOk

\* close() that releases the driver but keeps the handle.
close_driver_keeps_handle ==
    /\ IF driver # 0
       THEN /\ closedDrivers' = closedDrivers \cup {driver}
            /\ connRes' = "closed"
            /\ UNCHANGED driver
       ELSE /\ connRes' = "close_noop"
            /\ UNCHANGED <<driver, closedDrivers>>
    /\ UNCHANGED <<created, connectSucceeded>>

\* close(): with a driver, close it and drop the handle; the handle stays when
\* the driver's own close raises (closeOk false).  Without a driver, nothing.
close_driver ==
    /\ IF driver # 0
       THEN \E closeOk \in BOOLEAN :
               IF closeOk
               THEN /\ closedDrivers' = closedDrivers \cup {driver}
                    /\ driver' = 0
                    /\ connRes' = "closed"
               ELSE /\ connRes' = "DriverError"
                    /\ UNCHANGED <<driver, closedDrivers>>
       ELSE /\ connRes' = "close_noop"
            /\ UNCHANGED <<driver, closedDrivers>>
    /\ UNCHANGED <<created, connectSucceeded>>

close ==
    /\ dbpc = "idle"
    /\ close_driver
    /\ UNCHANGED <<dbVars, engVars, authVars, httpVars, rateVars, startVars, cacheVars, libVars>>

(***************************************************************************)
(* DatabaseManager: every operation runs its body in a with-block over     *)
(* Neo4jConnection.get_session                                             *)
(***************************************************************************)
\* Sessions a call of `op` may open: one per attempt.
SessionsNeeded(op) == IF op = "execute_query" THEN stop_after_attempt ELSE 1

\* What `op` returns when its with-block ends normally.
Returned(op) ==
    CASE op = "execute_query" -> "rows"
      [] op = "validate_query" -> "valid"
      [] op = "get_schema" -> "schema"
      [] op = "get_database_info" -> "info"
      [] op = "get_db_session" -> "session_done"
      [] OTHER -> "value"

\* The manager method is entered (for execute_query: through the retry wrapper,
\* whose first attempt is attempt 1).
db_enter(op) ==
    /\ dbpc = "idle"
    /\ nsess + SessionsNeeded(op) <= MaxSessions
    /\ dbop' = op
    /\ dbpc' = "enter"
    /\ attempt' = 1
    /\ tries' = 0
    /\ succAt' = 0
    /\ dbout' = "none"
    /\ surfaced' = NoResponse
    /\ UNCHANGED <<cur, bodyOk, nsess, sessions, closes>>

db_call(op) ==
    /\ db_enter(op)
    /\ UNCHANGED <<connVars, engVars, authVars, httpVars, rateVars, startVars, cacheVars, libVars>>

\* A stop condition that lets one attempt too many through.
retry_stop_late(n) == n > stop_after_attempt

\* tenacity's stop condition after a failed attempt.
retry_stop(n) == n >= stop_after_attempt

\* get_schema and get_database_info without their try/except.
raised_to_caller(op, err) == err

\* get_schema and get_database_info: `except Exception` logs the error and the
\* method returns the dict it has filled so far.
logged_and_returned(op, err) == Returned(op)

\* The wrapped function (or the with statement) raised `err` in this attempt.
\*   execute_query: `except Exception` wraps it in QueryExecutionError, and the
\*     retry decorator (reraise is left at its default, False) either sleeps and
\*     tries again or gives up with tenacity's RetryError;
\*   validate_query returns (False, message); get_schema and get_database_info
\*     log and return what they have; the transaction helpers and get_db_session
\*     let the error through.
db_failed(err) ==
    CASE dbop = "execute_query" ->
            IF retry_stop(attempt)
            THEN /\ dbpc' = "idle"
                 /\ dbout' = "RetryError"
                 /\ surfaced' = Surface("RetryError")
            ELSE /\ dbpc' = "backoff"
                 /\ UNCHANGED <<dbout, surfaced>>
      [] dbop = "validate_query" ->
            /\ dbpc' = "idle"
            /\ dbout' = "invalid"
            /\ UNCHANGED surfaced
      [] dbop \in {"get_schema", "get_database_info"} ->
            /\ dbpc' = "idle"
            /\ dbout' = logged_and_returned(dbop, err)
            /\ UNCHANGED surfaced
      [] OTHER ->
            /\ dbpc' = "idle"
            /\ dbout' = err
            /\ surfaced' = Surface(err)

\* get_session, up to the yield: self._driver.session(...).  With no driver the
\* attribute access on None raises AttributeError and no session exists.
get_session_enter ==
    /\ dbpc = "enter"
    /\ tries' = tries + 1
    /\ IF driver = 0
       THEN /\ db_failed("AttributeError")
            /\ UNCHANGED <<cur, nsess, sessions, closes>>
       ELSE /\ nsess' = nsess + 1
            /\ cur' = nsess + 1
            /\ sessions' = sessions \cup {nsess + 1}
            /\ closes' = [s \in 1..(nsess + 1) |-> IF s <= nsess THEN closes[s] ELSE 0]
            /\ dbpc' = "body"
            /\ UNCHANGED <<dbout, surfaced>>
    /\ UNCHANGED <<dbop, attempt, succAt, bodyOk>>
    /\ UNCHANGED <<connVars, engVars, authVars, httpVars, rateVars, startVars, cacheVars, libVars>>

\* The body of the with-block: session.run and the reading of the records
\* either end normally or raise.
session_body ==
    /\ dbpc = "body"
    /\ \E ok \in BOOLEAN : bodyOk' = ok
    /\ dbpc' = "exit"
    /\ UNCHANGED <<dbop, attempt, tries, succAt, cur, nsess, sessions, closes,
                   dbout, surfaced>>
    /\ UNCHANGED <<connVars, engVars, authVars, httpVars, rateVars, startVars, cacheVars, libVars>>

\* get_session without the `finally`: the session is closed only when the body
\* ended normally.
session_close_unless_raised(ok) ==
    /\ sessions' = IF ok THEN sessions \ {cur} ELSE sessions
    /\ closes' = IF ok THEN [closes EXCEPT ![cur] = @ + 1] ELSE closes
    /\ cur' = 0

\* get_session after the yield: `finally: session.close()`, whichever way the
\* body ended.
session_finally(ok) ==
    /\ sessions' = sessions \ {cur}
    /\ closes' = [closes EXCEPT ![cur] = @ + 1]
    /\ cur' = 0

get_session_exit ==
    /\ dbpc = "exit"
    /\ session_finally(bodyOk)
    /\ IF bodyOk
       THEN /\ dbpc' = "idle"
            /\ dbout' = Returned(dbop)
            /\ succAt' = attempt
            /\ UNCHANGED surfaced
       ELSE /\ db_failed("DriverError")
            /\ UNCHANGED succAt
    /\ UNCHANGED <<dbop, attempt, tries, bodyOk, nsess>>
    /\ UNCHANGED <<connVars, engVars, authVars, httpVars, rateVars, startVars, cacheVars, libVars>>

\* The retry wrapper has slept and calls the function again.
retry_next ==
    /\ dbpc = "backoff"
    /\ attempt' = attempt + 1
    /\ dbpc' = "enter"
    /\ UNCHANGED <<dbop, tries, succAt, cur, bodyOk, nsess, sessions, closes,
                   dbout, surfaced>>
    /\ UNCHANGED <<connVars, engVars, authVars, httpVars, rateVars, startVars, cacheVars, libVars>>

(***************************************************************************)
(* Startup and shutdown: the lifespan of the application (main.py)         *)
(***************************************************************************)
\* neo4j_connection.connect(); its Neo4jConnectionError is logged and raised
\* again, which ends the startup.
lifespan_connect ==
    /\ lifecycle = "created"
    /\ dbpc = "idle"
    /\ \E driverOk \in BOOLEAN, verifyOk \in BOOLEAN :
          connect_guarded(driverOk, verifyOk)
    /\ IF connRes' = "Neo4jConnectionError"
       THEN lifecycle' = "aborted" /\ startup_error' = "Neo4jConnectionError"
       ELSE lifecycle' = "get_schema" /\ UNCHANGED startup_error
    /\ UNCHANGED <<dbVars, engVars, authVars, httpVars, rateVars, cacheVars, libVars>>

\* neo4j_service.get_schema() and neo4j_service.get_database_info() are called.
lifespan_fetch ==
    /\ lifecycle \in {"get_schema", "get_info"}
    /\ IF lifecycle = "get_schema"
       THEN db_enter("get_schema") /\ lifecycle' = "schema_wait"
       ELSE db_enter("get_database_info") /\ lifecycle' = "info_wait"
    /\ UNCHANGED startup_error
    /\ UNCHANGED <<connVars, engVars, authVars, httpVars, rateVars, cacheVars, libVars>>

\* The call is over: an exception it raised reaches `except Exception` of the
\* lifespan and is raised again; otherwise the startup goes on, and after the
\* second fetch the lifespan yields.
lifespan_fetched ==
    /\ lifecycle \in {"schema_wait", "info_wait"}
    /\ dbpc = "idle"
    /\ IF dbout \in Raised
       THEN lifecycle' = "aborted" /\ startup_error' = dbout
       ELSE /\ lifecycle' = IF lifecycle = "schema_wait" THEN "get_info" ELSE "serving"
            /\ UNCHANGED startup_error
    /\ UNCHANGED <<connVars, dbVars, engVars, authVars, httpVars, rateVars, cacheVars, libVars>>

\* While the application serves, its handlers call the manager.
lifespan_serving ==
    /\ lifecycle = "serving"
    /\ \E op \in DbOps : db_call(op)

\* After the yield: neo4j_connection.close(), whose exception is logged only.
lifespan_shutdown ==
    /\ lifecycle = "serving"
    /\ dbpc = "idle"
    /\ close_driver
    /\ lifecycle' = "stopped"
    /\ UNCHANGED startup_error
    /\ UNCHANGED <<dbVars, engVars, authVars, httpVars, rateVars, cacheVars, libVars>>

(***************************************************************************)
(* Query text.  A text is a sequence of tokens: a word is a maximal run of *)
(* word characters, a separator is " " (one space), "  " (a longer run of  *)
(* white space) or ";".  Two words are never adjacent, so every word       *)
(* starts and ends at a regular-expression word boundary.                  *)
(***************************************************************************)
Whitespace == {" ", "  "}
Separators == Whitespace \cup {";"}

\* str.upper() on a token.
Upper(t) ==
    CASE t = "create" -> "CREATE"
      [] t = "limit" -> "LIMIT"
      [] t = "match" -> "MATCH"
      [] t = "detach" -> "DETACH"
      [] t = "delete" -> "DELETE"
      [] OTHER -> t

\* Whether the token starts with a decimal digit (\d+ matches a prefix of it).
StartsWithDigit(t) == t \in {"5", "100"}

\* QueryOptimizer.DANGEROUS_KEYWORDS, in the order of the list.
DANGEROUS_KEYWORDS ==
    << <<"CREATE">>, <<"DELETE">>, <<"REMOVE">>, <<"SET">>, <<"MERGE">>,
       <<"DROP">>, <<"ALTER">>, <<"DETACH", " ", "DELETE">> >>

\* re.search(r'\b' + keyword + r'\b', cypher.upper())
KeywordFound(text, keyword) ==
    \E i \in 1..Len(text) :
        /\ i + Len(keyword) - 1 <= Len(text)
        /\ \A j \in 1..Len(keyword) : Upper(text[i + j - 1]) = keyword[j]

\* _has_limit: re.search(r'\bLIMIT\s+\d+', text, re.IGNORECASE)
has_limit(text) ==
    \E i \in 1..Len(text) :
        /\ i + 2 <= Len(text)
        /\ Upper(text[i]) = "LIMIT"
        /\ text[i + 1] \in Whitespace
        /\ StartsWithDigit(text[i + 2])

\* str.rstrip(';')
RECURSIVE rstrip_semicolon(_)
rstrip_semicolon(text) ==
    IF Len(text) > 0 /\ text[Len(text)] = ";"
    THEN rstrip_semicolon(SubSeq(text, 1, Len(text) - 1))
    ELSE text

\* settings.default_query_limit, as the text the f-string renders.
default_limit == "100"

\* _add_limit: f"{cypher.rstrip(';')} LIMIT {limit}"
add_limit(text, limit) == rstrip_semicolon(text) \o <<" ", "LIMIT", " ", limit>>

\* QueryOptimizer.optimize
optimize(text) ==
    IF ~has_limit(text) THEN add_limit(text, default_limit) ELSE text

\* The first dangerous keyword found, 0 when there is none.
FirstDangerous(text) ==
    IF \E k \in 1..Len(DANGEROUS_KEYWORDS) : KeywordFound(text, DANGEROUS_KEYWORDS[k])
    THEN CHOOSE k \in 1..Len(DANGEROUS_KEYWORDS) :
            /\ KeywordFound(text, DANGEROUS_KEYWORDS[k])
            /\ \A l \in 1..(k - 1) : ~KeywordFound(text, DANGEROUS_KEYWORDS[l])
    ELSE 0

NoReason == << >>

\* QueryOptimizer.is_read_only: (verdict, reason).  The reason
\* "Opération non autorisée: <keyword>" is kept as the keyword it names.
is_read_only(text, read_only_mode) ==
    IF ~read_only_mode
    THEN [ok |-> TRUE, reason |-> NoReason]
    ELSE IF FirstDangerous(text) # 0
         THEN [ok |-> FALSE, reason |-> DANGEROUS_KEYWORDS[FirstDangerous(text)]]
         ELSE [ok |-> TRUE, reason |-> NoReason]

\* _clean_cypher: ' '.join(cypher.split()) turns every run of white space into
\* one space and drops it at both ends.  (The completions considered here hold
\* no markdown fence and no // comment.)
RECURSIVE clean_cypher(_)
clean_cypher(raw) ==
    IF raw = << >> THEN << >>
    ELSE IF Head(raw) \in Whitespace
         THEN LET rest == clean_cypher(Tail(raw))
              IN IF rest = << >> \/ Head(rest) = " " THEN rest ELSE <<" ">> \o rest
         ELSE <<Head(raw)>> \o clean_cypher(Tail(raw))

\* str.strip() at the left end (the right end is handled by clean_cypher).
lstrip(text) == IF text # << >> /\ Head(text) = " " THEN Tail(text) ELSE text

CleanCompletion(raw) == lstrip(clean_cypher(raw))

(***************************************************************************)
(* CacheService                                                            *)
(***************************************************************************)
Questions == {"q1"}
Contexts == {"None", "ctx"}

\* json.dumps(params or {}, sort_keys=True): the serialized parameter object.
ParamsJson(params) == IF params = << >> THEN <<"{}">> ELSE params

\* The params the engine passes: {"context": context}.
ContextParams(c) == <<"context", c>>

\* _generate_key(query, params): "query:" + sha256(f"{query}:{json}").  The
\* digest is kept as the pair it is computed from (no collisions).
generate_key(query, params) == <<query, ParamsJson(params)>>

\* Values in result rows: JSON-native ones, tuples (record.data() renders a
\* relationship as a tuple) and temporal values (not JSON serializable).
Cells == {"int", "tuple", "datetime"}
Rows == {<< >>, <<"int">>, <<"tuple">>, <<"datetime">>}

\* json.dumps raises TypeError on a temporal value.
Serializable(rows) == \A i \in 1..Len(rows) : rows[i] # "datetime"

\* json.loads(json.dumps(x)) on one value: a tuple comes back as a list.
JsonCell(c) == IF c = "tuple" THEN "list" ELSE c

JsonRows(rows) == [i \in 1..Len(rows) |-> JsonCell(rows[i])]

\* json.loads(json.dumps(value)) on the dict the engine caches.
JsonValue(v) ==
    [cypher |-> v.cypher, results |-> JsonRows(v.results),
     execution_time |-> v.execution_time, answer |-> v.answer]

\* CacheService.set(query, value, params): whether it stored the value
\* (storeOk: the store accepted setex), and the store afterwards.
cache_set_ok(value, storeOk) == cache_enabled /\ Serializable(value.results) /\ storeOk

cache_set(query, value, params, storeOk) ==
    IF cache_set_ok(value, storeOk)
    THEN [k \in DOMAIN cache \cup {generate_key(query, params)} |->
            IF k = generate_key(query, params) THEN JsonValue(value) ELSE cache[k]]
    ELSE cache

\* CacheService.get(query, params) finds a value (storeOk: the store answered).
cache_get_found(query, params, storeOk) ==
    cache_enabled /\ storeOk /\ generate_key(query, params) \in DOMAIN cache

\* settings.cache_ttl, the expiry CacheService.set uses by default.
cache_ttl == 3600

\* The ttl argument of set: absent (None) or an integer.
NoOverride == [given |-> FALSE, ttl |-> 0]
TtlOverrides == {NoOverride, [given |-> TRUE, ttl |-> 0], [given |-> TRUE, ttl |-> 2]}

\* An expiry that takes the argument whenever one is passed.
ttl_if_given(o) == IF o.given THEN o.ttl ELSE cache_ttl

\* `ttl or self.ttl`: None and 0 both select the configured TTL.
effective_ttl(o) == IF o.given /\ o.ttl # 0 THEN o.ttl ELSE cache_ttl

\* setex(key, ttl, data): the expiry of the entry starts afresh.
ttl_set(query, params, o, ok) ==
    IF ok
    THEN [k \in DOMAIN ttl_left \cup {generate_key(query, params)} |->
            IF k = generate_key(query, params) THEN effective_ttl(o) ELSE ttl_left[k]]
    ELSE ttl_left

\* The values and parameter objects CacheService is called with.
CacheParams == {<< >>, ContextParams("ctx")}
CacheValues ==
    {[cypher |-> <<"MATCH", " ", "n">>, results |-> r, execution_time |-> "total_ms",
      answer |-> "llm_answer"] : r \in {<<"int">>, <<"tuple">>, <<"datetime">>}}

\* None, in the shape of a cached value.
NoValue == [cypher |-> << >>, results |-> << >>, execution_time |-> "none",
            answer |-> "none"]

\* CacheService.set(query, value, params, ttl)
cache_service_set ==
    /\ \E q \in Questions, params \in CacheParams, v \in CacheValues,
          o \in TtlOverrides, storeOk \in BOOLEAN :
          /\ cache' = cache_set(q, v, params, storeOk)
          /\ ttl_left' = ttl_set(q, params, o, cache_set_ok(v, storeOk))
          /\ cset' = IF cache_set_ok(v, storeOk)
                     THEN [k \in DOMAIN cset \cup {generate_key(q, params)} |->
                             IF k = generate_key(q, params)
                             THEN [value |-> v, override |-> o, age |-> 0]
                             ELSE cset[k]]
                     ELSE cset
    /\ UNCHANGED <<advances, cget>>
    /\ UNCHANGED <<settingsVars, kind, epc, question, context, use_cache, cypher,
                   results, answer, hit, eret, trace, last>>
    /\ UNCHANGED <<connVars, dbVars, authVars, httpVars, rateVars, startVars, libVars>>

\* CacheService.get(query, params): the decoded value, or None on a miss and
\* on any error.
cache_service_get ==
    /\ \E q \in Questions, params \in CacheParams, storeOk \in BOOLEAN :
          cget' = [valid |-> TRUE, key |-> generate_key(q, params), answered |-> storeOk,
                   found |-> cache_get_found(q, params, storeOk),
                   value |-> IF cache_get_found(q, params, storeOk)
                             THEN cache[generate_key(q, params)] ELSE NoValue]
    /\ UNCHANGED <<ttl_left, advances, cset>>
    /\ UNCHANGED engVars
    /\ UNCHANGED <<connVars, dbVars, authVars, httpVars, rateVars, startVars, libVars>>

\* Time passes: one second, or a whole cache_ttl.  The store drops the entries
\* whose expiry is reached.
advance ==
    /\ advances < MaxAdvances
    /\ advances' = advances + 1
    /\ \E d \in {1, cache_ttl} :
          LET alive == {k \in DOMAIN cache : ttl_left[k] > d}
          IN /\ cache' = [k \in alive |-> cache[k]]
             /\ ttl_left' = [k \in alive |-> ttl_left[k] - d]
             /\ cset' = [k \in DOMAIN cset |-> [cset[k] EXCEPT !.age = @ + d]]
    /\ UNCHANGED cget
    /\ UNCHANGED <<settingsVars, kind, epc, question, context, use_cache, cypher,
                   results, answer, hit, eret, trace, last>>
    /\ UNCHANGED <<connVars, dbVars, authVars, httpVars, rateVars, startVars, libVars>>

(***************************************************************************)
(* GraphRAGEngine                                                          *)
(***************************************************************************)
\* Raw completions of the language model for the generation prompt.
RawCompletions ==
    { <<" ", "match", "  ", "n", " ">>,
      <<"MATCH", " ", "n", " ", "create", " ", "m">> }

\* Query texts sent to POST /query/cypher.
CypherInputs ==
    { <<"MATCH", " ", "n">>,
      <<"MATCH", " ", "n", ";", ";">>,
      <<"MATCH", " ", "n", " ", "LIMIT", "  ", "5">>,
      <<"limit", ";", "5", " ", "SET", " ", "x">>,
      <<"MATCH", " ", "n", " ", "DETACH", " ", "DELETE", " ", "n">>,
      <<"MATCH", " ", "OFFSET">> }

Ev(op) == [op |-> op, q |-> << >>, ok |-> TRUE]
EvQ(op, q, ok) == [op |-> op, q |-> q, ok |-> ok]

NoRet == [kind |-> "none", cypher |-> << >>, results |-> << >>, time |-> "none",
          answer |-> "none", exc |-> "none", reason |-> << >>]

\* return cypher, results, total_time, natural_answer
Return(c, r, t, a) ==
    [kind |-> "return", cypher |-> c, results |-> r, time |-> t, answer |-> a,
     exc |-> "none", reason |-> << >>]

\* raise err(reason)
Raise(err, reason) ==
    [kind |-> "raise", cypher |-> << >>, results |-> << >>, time |-> "none",
     answer |-> "none", exc |-> err, reason |-> reason]

NoLast == [valid |-> FALSE, stored |-> FALSE, key |-> << >>, ret |-> NoRet]

\* A call ends: it returns or raises `ret`.
Finish(ret) == epc' = "idle" /\ eret' = ret

\* A cache check that looks the entry up and runs the pipeline all the same.
natural_lookup_ignoring_hit(q, c, u, storeOk) ==
    /\ kind' = "natural"
    /\ question' = q
    /\ context' = c
    /\ use_cache' = u
    /\ cypher' = << >>
    /\ results' = << >>
    /\ answer' = "none"
    /\ trace' = IF u /\ cache_enabled THEN <<EvQ("cache_get", << >>, storeOk)>> ELSE << >>
    /\ hit' = FALSE
    /\ epc' = "schema"
    /\ eret' = NoRet
    /\ UNCHANGED <<cache, last>>

\* process_natural_query, lines 42-54: the cache check.  On a hit the cached
\* tuple is returned at once.
natural_lookup(q, c, u, storeOk) ==
    /\ kind' = "natural"
    /\ question' = q
    /\ context' = c
    /\ use_cache' = u
    /\ cypher' = << >>
    /\ results' = << >>
    /\ answer' = "none"
    /\ IF u /\ cache_enabled
       THEN /\ trace' = <<EvQ("cache_get", << >>, storeOk)>>
            /\ IF cache_get_found(q, ContextParams(c), storeOk)
               THEN LET cached == cache[generate_key(q, ContextParams(c))]
                    IN /\ hit' = TRUE
                       /\ Finish(Return(cached.cypher, cached.results,
                                        cached.execution_time, cached.answer))
               ELSE /\ hit' = FALSE
                    /\ epc' = "schema"
                    /\ eret' = NoRet
       ELSE /\ trace' = << >>
            /\ hit' = FALSE
            /\ epc' = "schema"
            /\ eret' = NoRet
    /\ UNCHANGED <<cache, last>>

process_natural_query ==
    /\ epc = "idle"
    /\ \E q \in Questions, c \in Contexts, u \in BOOLEAN, storeOk \in BOOLEAN :
          natural_lookup(q, c, u, storeOk)
    /\ UNCHANGED <<settingsVars, connVars, dbVars, authVars, httpVars, rateVars, startVars, cacheVars, libVars>>

\* schema = self.neo4j.get_schema(): the manager's get_schema never raises.
get_schema ==
    /\ epc = "schema"
    /\ trace' = Append(trace, Ev("get_schema"))
    /\ epc' = "generate"
    /\ UNCHANGED <<settingsVars, cache, kind, question, context, use_cache, cypher,
                   results, answer, hit, eret, last>>
    /\ UNCHANGED <<connVars, dbVars, authVars, httpVars, rateVars, startVars, cacheVars, libVars>>

\* cypher = self.cypher_generator.generate(question, schema, context): one
\* completion of the language model, cleaned; the service raises
\* LLMServiceError when the provider fails.
generate ==
    /\ epc = "generate"
    /\ \/ /\ \E raw \in RawCompletions : cypher' = CleanCompletion(raw)
          /\ trace' = Append(trace, Ev("generate"))
          /\ epc' = "optimize"
          /\ UNCHANGED eret
       \/ /\ trace' = Append(trace, EvQ("generate", << >>, FALSE))
          /\ Finish(Raise("LLMServiceError", << >>))
          /\ UNCHANGED cypher
    /\ UNCHANGED <<settingsVars, cache, kind, question, context, use_cache,
                   results, answer, hit, last>>
    /\ UNCHANGED <<connVars, dbVars, authVars, httpVars, rateVars, startVars, cacheVars, libVars>>

\* process_cypher_query is entered with the request's query text.
process_cypher_query ==
    /\ epc = "idle"
    /\ \E c \in CypherInputs : cypher' = c
    /\ kind' = "cypher"
    /\ epc' = "optimize"
    /\ question' = "none"
    /\ context' = "None"
    /\ use_cache' = FALSE
    /\ results' = << >>
    /\ answer' = "none"
    /\ hit' = FALSE
    /\ eret' = NoRet
    /\ trace' = << >>
    /\ UNCHANGED <<settingsVars, cache, last>>
    /\ UNCHANGED <<connVars, dbVars, authVars, httpVars, rateVars, startVars, cacheVars, libVars>>

\* cypher = self.query_optimizer.optimize(cypher)
optimize_step ==
    /\ epc = "optimize"
    /\ cypher' = optimize(cypher)
    /\ trace' = Append(trace, EvQ("optimize", optimize(cypher), TRUE))
    /\ epc' = "read_only"
    /\ UNCHANGED <<settingsVars, cache, kind, question, context, use_cache,
                   results, answer, hit, eret, last>>
    /\ UNCHANGED <<connVars, dbVars, authVars, httpVars, rateVars, startVars, cacheVars, libVars>>

\* A natural pipeline that goes from the read-only check straight to execution.
after_read_only_no_validation(k) == "execute"

\* The step that follows a passed read-only check: the natural pipeline
\* validates against the database, the direct one executes.
after_read_only(k) == IF k = "natural" THEN "validate" ELSE "execute"

\* A pipeline that computes the verdict and goes on whatever it is.
read_only_gate_ignored(verdict) == epc' = after_read_only(kind) /\ UNCHANGED eret

\* `if not is_read_only: raise InvalidCypherQueryError(error_msg)`
read_only_gate(verdict) ==
    IF ~verdict.ok
    THEN Finish(Raise("InvalidCypherQueryError", verdict.reason))
    ELSE epc' = after_read_only(kind) /\ UNCHANGED eret

read_only_step ==
    /\ epc = "read_only"
    /\ LET verdict == is_read_only(cypher, enable_read_only_mode)
       IN /\ trace' = Append(trace, EvQ("is_read_only", cypher, verdict.ok))
          /\ read_only_gate(verdict)
    /\ UNCHANGED <<settingsVars, cache, kind, question, context, use_cache, cypher,
                   results, answer, hit, last>>
    /\ UNCHANGED <<connVars, dbVars, authVars, httpVars, rateVars, startVars, cacheVars, libVars>>

\* is_valid, validation_error = self.neo4j.validate_cypher(cypher)
validate_step ==
    /\ epc = "validate"
    /\ \E valid \in BOOLEAN :
          /\ trace' = Append(trace, EvQ("validate_cypher", cypher, valid))
          /\ IF valid
             THEN epc' = "execute" /\ UNCHANGED eret
             ELSE Finish(Raise("InvalidCypherQueryError", <<"invalid query generated">>))
    /\ UNCHANGED <<settingsVars, cache, kind, question, context, use_cache, cypher,
                   results, answer, hit, last>>
    /\ UNCHANGED <<connVars, dbVars, authVars, httpVars, rateVars, startVars, cacheVars, libVars>>


\* Neo4jService.execute_cypher(cypher): validates first when
\* settings.enable_query_validation is set, then runs DatabaseManager.execute_query,
\* which returns rows or, when its attempts are used up, raises RetryError.
execute_step ==
    /\ epc = "execute"
    /\ \E valid \in BOOLEAN, ran \in BOOLEAN, rows \in Rows :
          LET checked == IF enable_query_validation
                         THEN Append(trace, EvQ("validate_cypher", cypher, valid))
                         ELSE trace
          IN IF enable_query_validation /\ ~valid
             THEN /\ trace' = checked
                  /\ Finish(Raise("InvalidCypherQueryError", <<"invalid query">>))
                  /\ UNCHANGED results
             ELSE /\ trace' = Append(checked, EvQ("execute_query", cypher, ran))
                  /\ IF ~ran
                     THEN Finish(Raise("RetryError", << >>)) /\ UNCHANGED results
                     ELSE /\ results' = rows
                          /\ IF kind = "natural"
                             THEN epc' = "format" /\ UNCHANGED eret
                             ELSE Finish(Return(<< >>, rows, "query_ms", "none"))
    /\ UNCHANGED <<settingsVars, cache, kind, question, context, use_cache, cypher,
                   answer, hit, last>>
    /\ UNCHANGED <<connVars, dbVars, authVars, httpVars, rateVars, startVars, cacheVars, libVars>>

\* ResponseFormatter.format_natural_response: a fixed sentence for no rows;
\* otherwise the model's completion, or the fallback text when the model fails.
format_step ==
    /\ epc = "format"
    /\ IF results = << >>
       THEN answer' = "no_information"
       ELSE \E llmOk \in BOOLEAN :
               answer' = IF llmOk THEN "llm_answer" ELSE "fallback_answer"
    /\ trace' = Append(trace, Ev("format_natural_response"))
    /\ epc' = "store"
    /\ UNCHANGED <<settingsVars, cache, kind, question, context, use_cache, cypher,
                   results, hit, eret, last>>
    /\ UNCHANGED <<connVars, dbVars, authVars, httpVars, rateVars, startVars, cacheVars, libVars>>

\* The dict the engine caches.
CacheValue(c, r, t, a) == [cypher |-> c, results |-> r, execution_time |-> t, answer |-> a]

\* cache.set(question, value) without the params argument.
store_params_missing(c) == << >>

\* The params argument of the engine's cache.set call: the same
\* {"context": context} as in the lookup.
store_params(c) == ContextParams(c)

\* A cache write that does not ask whether the caller wanted the cache.
store_wanted_always(u) == cache_enabled

\* `if use_cache and self.cache.enabled:` before the cache write.
store_wanted(u) == u /\ cache_enabled

\* process_natural_query, lines 91-111: the cache write and the return.
store_step ==
    /\ epc = "store"
    /\ LET value == CacheValue(cypher, results, "total_ms", answer)
           ret == Return(cypher, results, "total_ms", answer)
       IN IF store_wanted(use_cache)
          THEN \E storeOk \in BOOLEAN :
                  /\ cache' = cache_set(question, value, store_params(context), storeOk)
                  /\ ttl_left' = ttl_set(question, store_params(context), NoOverride,
                                         cache_set_ok(value, storeOk))
                  /\ trace' = Append(trace, EvQ("cache_set", << >>,
                                                cache_set_ok(value, storeOk)))
                  /\ last' = [valid |-> TRUE, stored |-> cache_set_ok(value, storeOk),
                              key |-> generate_key(question, ContextParams(context)),
                              ret |-> IF cache_set_ok(value, storeOk) THEN ret ELSE NoRet]
                  /\ Finish(ret)
          ELSE /\ Finish(ret)
               /\ UNCHANGED <<cache, ttl_left, trace, last>>
    /\ UNCHANGED <<settingsVars, kind, question, context, use_cache, cypher,
                   results, answer, hit>>
    /\ UNCHANGED <<advances, cset, cget>>
    /\ UNCHANGED <<connVars, dbVars, authVars, httpVars, rateVars, startVars, libVars>>

\* The store drops an entry whose TTL has elapsed.  Only the lookup reads the
\* store, so an expiry during a call acts like one before it.
cache_expire ==
    /\ epc = "idle"
    /\ \E k \in DOMAIN cache :
          /\ cache' = [x \in DOMAIN cache \ {k} |-> cache[x]]
          /\ ttl_left' = [x \in DOMAIN ttl_left \ {k} |-> ttl_left[x]]
          /\ last' = IF last.valid /\ last.key = k THEN NoLast ELSE last
    /\ UNCHANGED <<settingsVars, kind, epc, question, context, use_cache, cypher,
                   results, answer, hit, eret, trace>>
    /\ UNCHANGED <<advances, cset, cget>>
    /\ UNCHANGED <<connVars, dbVars, authVars, httpVars, rateVars, startVars, libVars>>

\* Query texts sent to POST /query/validate.
ValidateInputs ==
    { <<"MATCH", " ", "n", " ", "LIMIT", "  ", "5">>,
      <<"MATCH", " ", "n", " ", "DETACH", " ", "DELETE", " ", "n">> }

\* return is_valid, is_read_only, error_msg, warnings
Validated(is_valid, read_only, error_msg, warnings) ==
    [kind |-> "validated", is_valid |-> is_valid, is_read_only |-> read_only,
     error_msg |-> error_msg, warnings |-> warnings]

\* GraphRAGEngine.validate_query(cypher, check_read_only): the syntax check,
\* the read-only check when asked for, and the warning for a missing LIMIT.
validate_query ==
    /\ epc = "idle"
    /\ \E c \in ValidateInputs, check_read_only \in BOOLEAN, valid \in BOOLEAN :
          LET verdict == is_read_only(c, enable_read_only_mode)
          IN /\ cypher' = c
             /\ trace' = <<EvQ("validate_cypher", c, valid)>> \o
                          (IF valid /\ check_read_only
                           THEN <<EvQ("is_read_only", c, verdict.ok)>> ELSE << >>)
             /\ eret' =
                   IF ~valid
                   THEN Validated(FALSE, FALSE, <<"syntax error">>, << >>)
                   ELSE Validated(TRUE, check_read_only => verdict.ok,
                                  IF check_read_only /\ ~verdict.ok
                                  THEN verdict.reason ELSE << >>,
                                  IF ~has_limit(c) THEN <<"no LIMIT">> ELSE << >>)
    /\ kind' = "validate"
    /\ epc' = "idle"
    /\ question' = "none"
    /\ context' = "None"
    /\ use_cache' = FALSE
    /\ results' = << >>
    /\ answer' = "none"
    /\ hit' = FALSE
    /\ UNCHANGED <<settingsVars, cache, last>>
    /\ UNCHANGED <<connVars, dbVars, authVars, httpVars, rateVars, startVars, cacheVars,
                   libVars>>

\* The metadata of the response of POST /query/natural for what the engine
\* returned.
QueryMetadata(ret, return_cypher) ==
    [query_type |-> "natural",
     execution_time_ms |-> ret.time,
     result_count |-> Len(ret.results),
     generated_cypher |-> IF return_cypher THEN ret.cypher ELSE << >>,
     used_cache |-> FALSE]

(***************************************************************************)
(* Authentication gate: AuthMiddleware.dispatch, then the route with its   *)
(* get_api_key dependency                                                  *)
(***************************************************************************)
\* AuthMiddleware.PUBLIC_ROUTES
PUBLIC_ROUTES == {"/", "/docs", "/openapi.json", "/redoc", "/api/v1/health"}

\* The routing table: the routes whose handler declares Depends(get_api_key),
\* and the routes without it.
KeyedRoutes == {"/api/v1/query/cypher", "/api/v1/query/natural",
                "/api/v1/query/validate", "/api/v1/schema", "/api/v1/info"}
OpenRoutes == PUBLIC_ROUTES \cup {"/favicon.ico"}

\* Request paths considered; the last one matches no route.
Paths == PUBLIC_ROUTES \cup {"/api/v1/query/cypher", "/api/v1/schema",
                             "/favicon.ico", "/api/v1/health/ready"}

\* API keys a deployment may list, and X-API-Key header values ("None": the
\* header is absent; "": it is empty).
KnownKeys == {"k1", "k2"}
HeaderKeys == {"None", "", "k1", "k2", "k3"}

\* Bearer tokens by what jwt.decode finds: whether the signature verifies,
\* whether the token is expired, and its "type" claim.
Tokens ==
    [access |-> [signed |-> TRUE, expired |-> FALSE, type |-> "access"],
     refresh |-> [signed |-> TRUE, expired |-> FALSE, type |-> "refresh"],
     stale |-> [signed |-> TRUE, expired |-> TRUE, type |-> "access"],
     forged |-> [signed |-> FALSE, expired |-> FALSE, type |-> "access"]]

\* TokenManager.verify_token(token, "access"): a payload is returned only for
\* a token that decodes and whose type is "access"; otherwise UnauthorizedError.
verify_token(token) ==
    /\ token \in DOMAIN Tokens
    /\ Tokens[token].signed
    /\ ~Tokens[token].expired
    /\ Tokens[token].type = "access"

\* Authorization header values, as header.split(" ") sees them; << >> is an
\* absent header.
AuthHeaders ==
    { << >>, <<"Bearer", "access">>, <<"Bearer", "refresh">>, <<"Bearer", "stale">>,
      <<"Bearer", "forged">>, <<"Bearer", "", "access">>, <<"Basic", "access">>,
      <<"bearer", "access">>, <<"Bearer">> }

\* auth_header and auth_header.startswith("Bearer ")
IsBearer(h) == Len(h) >= 2 /\ h[1] = "Bearer"

\* The middleware's bearer fallback admits the request.
BearerPasses(h) == IsBearer(h) /\ verify_token(h[2])

\* `not api_key`: the header is absent or empty.
Falsy(k) == k \in {"None", ""}

\* A verify that treats an empty allow-list as "no restriction".
verify_api_key_open_when_unset(k) ==
    IF ~api_key_enabled THEN TRUE
    ELSE IF Falsy(k) THEN FALSE
    ELSE (api_keys = {} \/ k \in api_keys)

\* APIKeyManager.verify
verify_api_key(k) ==
    IF ~api_key_enabled THEN TRUE
    ELSE IF Falsy(k) THEN FALSE
    ELSE k \in api_keys

\* Routes whose handler takes a request body model.
PostRoutes == {"/api/v1/query/cypher", "/api/v1/query/natural", "/api/v1/query/validate"}

\* What a handler that has started can end with: a response, a domain error,
\* or an exception that is none of the kinds the handlers are registered for.
OtherExceptions == {"RetryError", "AttributeError", "ValueError"}
HandlerOutcomes == {"ok"} \cup DOMAIN BaseAPIException \cup OtherExceptions

\* str(exc), exc.detail: the text an exception carries.
ExcText(e) == <<"text of", e>>
GenericMessage == <<"Erreur interne du serveur">>
NoBody == [success |-> TRUE, error_code |-> "none", message |-> << >>]

\* api_exception_handler
api_exception_handler(e) ==
    [status |-> BaseAPIException[e].status,
     body |-> [success |-> FALSE, error_code |-> BaseAPIException[e].error_code,
               message |-> ExcText(e)],
     headers |-> {}]

\* validation_exception_handler
validation_exception_handler ==
    [status |-> 422,
     body |-> [success |-> FALSE, error_code |-> "VALIDATION_ERROR",
               message |-> <<"Erreur de validation des données">>],
     headers |-> {}]

\* http_exception_handler: the status and the detail of the exception; the
\* headers of the exception are not copied to the response.
http_exception_handler(code, detail) ==
    [status |-> code,
     body |-> [success |-> FALSE, error_code |-> "HTTP_ERROR", message |-> detail],
     headers |-> {}]

\* A general handler that reports the exception to the caller.
general_exception_handler_leaky(e) ==
    [status |-> 500,
     body |-> [success |-> FALSE, error_code |-> "INTERNAL_ERROR",
               message |-> ExcText(e)],
     headers |-> {}]

\* general_exception_handler: registered for Exception, so it is the handler
\* of the outermost layer of the stack, around every middleware.
general_exception_handler(e) ==
    [status |-> 500,
     body |-> [success |-> FALSE, error_code |-> "INTERNAL_ERROR",
               message |-> GenericMessage],
     headers |-> {}]

\* The response `r` leaves the stack.
Respond(r) ==
    /\ status' = r.status
    /\ body' = r.body
    /\ headers' = r.headers
    /\ exc' = "none"

\* AuthMiddleware.dispatch, lines 47-53: the HTTPException is raised inside a
\* middleware, outside the layer that holds the HTTPException handler, so it
\* reaches the outermost layer as an unhandled exception.
auth_rejected == general_exception_handler("HTTPException")

\* A request arrives.  setup_auth is the last add_middleware call of main.py,
\* which makes AuthMiddleware the outermost middleware: AuthMiddleware.dispatch
\* runs first (it is installed only when api_key_enabled, which is also
\* dispatch's second test).
dispatch ==
    /\ apc = "idle"
    /\ nreq < MaxRequests
    /\ \E p \in Paths, k \in HeaderKeys, h \in AuthHeaders :
          /\ req' = [path |-> p, x_api_key |-> k, authorization |-> h]
          /\ dep_key' = "None"
          /\ handler_ran' = FALSE
          /\ request_id' = 0
          /\ seen' = IF api_key_enabled THEN <<"auth">> ELSE << >>
          /\ IF p \in PUBLIC_ROUTES \/ ~api_key_enabled
             THEN /\ apc' = "logging"
                  /\ Respond([status |-> 0, body |-> NoBody, headers |-> {}])
                  /\ state_user' = "None"
                  /\ state_api_key' = "None"
             ELSE IF Falsy(k) /\ BearerPasses(h)
             THEN /\ apc' = "logging"
                  /\ Respond([status |-> 0, body |-> NoBody, headers |-> {}])
                  /\ state_user' = h[2]
                  /\ state_api_key' = "None"
             ELSE IF Falsy(k) \/ ~verify_api_key(k)
             THEN /\ apc' = "idle"
                  /\ Respond(auth_rejected)
                  /\ state_user' = "None"
                  /\ state_api_key' = "None"
             ELSE /\ apc' = "logging"
                  /\ Respond([status |-> 0, body |-> NoBody, headers |-> {}])
                  /\ state_user' = "None"
                  /\ state_api_key' = k
    /\ UNCHANGED <<api_key_enabled, api_keys, nreq>>
    /\ UNCHANGED <<connVars, dbVars, engVars, rateVars, startVars, cacheVars, libVars>>

\* RequestLoggingMiddleware.dispatch up to call_next: a new uuid4 is stored in
\* request.state.request_id.
request_logging ==
    /\ apc = "logging"
    /\ apc' = "route"
    /\ nreq' = nreq + 1
    /\ request_id' = nreq + 1
    /\ seen' = Append(seen, "request_logging")
    /\ UNCHANGED <<exc, body, headers>>
    /\ UNCHANGED authDataVars
    /\ UNCHANGED <<connVars, dbVars, engVars, rateVars, startVars, cacheVars, libVars>>

\* call_next of the innermost middleware: routing, the get_api_key dependency
\* of the route if it has one, the binding of the body, then the handler.  The
\* exceptions the inner layer has handlers for become responses here; any other
\* exception travels up.
route ==
    /\ apc = "route"
    /\ apc' = "logged"
    /\ seen' = Append(seen, "router")
    /\ IF req.path \notin KeyedRoutes \cup OpenRoutes
       THEN /\ Respond(http_exception_handler(404, <<"Not Found">>))
            /\ dep_key' = "None" /\ handler_ran' = FALSE
       ELSE IF req.path \in KeyedRoutes /\ api_key_enabled
                 /\ (Falsy(req.x_api_key) \/ ~verify_api_key(req.x_api_key))
       THEN /\ Respond(http_exception_handler(401, <<"API Key invalide ou manquante">>))
            /\ dep_key' = "None" /\ handler_ran' = FALSE
       ELSE /\ dep_key' = IF req.path \notin KeyedRoutes THEN "None"
                          ELSE IF api_key_enabled THEN req.x_api_key ELSE "public"
            /\ \E bodyValid \in BOOLEAN, outcome \in HandlerOutcomes :
                  IF req.path \in PostRoutes /\ ~bodyValid
                  THEN /\ Respond(validation_exception_handler)
                       /\ handler_ran' = FALSE
                  ELSE /\ handler_ran' = TRUE
                       /\ IF outcome = "ok" \/ req.path \notin KeyedRoutes
                          THEN Respond([status |-> IF req.path = "/favicon.ico"
                                                   THEN 204 ELSE 200,
                                        body |-> NoBody, headers |-> {}])
                          ELSE IF outcome \in DOMAIN BaseAPIException
                          THEN Respond(api_exception_handler(outcome))
                          ELSE /\ exc' = outcome
                               /\ UNCHANGED <<status, body, headers>>
    /\ UNCHANGED <<api_key_enabled, api_keys, req, state_user, state_api_key>>
    /\ UNCHANGED <<request_id, nreq>>
    /\ UNCHANGED <<connVars, dbVars, engVars, rateVars, startVars, cacheVars, libVars>>

\* RequestLoggingMiddleware.dispatch after call_next: a response gets the two
\* headers.  An exception passes through this middleware and the ones around
\* it untouched, and the outermost layer answers with the general handler.
request_completed ==
    /\ apc = "logged"
    /\ apc' = "idle"
    /\ IF exc = "none"
       THEN /\ headers' = headers \cup {"X-Request-ID", "X-Process-Time"}
            /\ UNCHANGED <<status, body, exc>>
       ELSE /\ status' = general_exception_handler(exc).status
            /\ body' = general_exception_handler(exc).body
            /\ headers' = general_exception_handler(exc).headers
            /\ UNCHANGED exc
    /\ UNCHANGED <<api_key_enabled, api_keys, req, state_user, state_api_key,
                   dep_key, handler_ran>>
    /\ UNCHANGED <<request_id, nreq, seen>>
    /\ UNCHANGED <<connVars, dbVars, engVars, rateVars, startVars, cacheVars, libVars>>

(***************************************************************************)
(* Rate limiting: the slowapi limiter of middleware/rate_limit.py and the  *)
(* @limiter.limit decorators of the endpoints                              *)
(***************************************************************************)
\* "50/minute" on execute_cypher_query, "30/minute" on execute_natural_query,
\* and settings.rate_limit_calls, the count of the limiter's default limit.
cypher_limit == 50
natural_limit == 30
rate_limit_calls == 100

\* Who sends: the X-API-Key header and the client address.
Senders ==
    [anon |-> [x_api_key |-> "None", addr |-> "10.0.0.1"],
     blank |-> [x_api_key |-> "", addr |-> "10.0.0.1"],
     keyed |-> [x_api_key |-> "k1", addr |-> "10.0.0.1"]]
NoSender == [x_api_key |-> "None", addr |-> "none"]

\* The routes requests are sent to: the two decorated ones and one without a
\* decorator.
RateRoutes == {"/api/v1/query/cypher", "/api/v1/query/natural", "/api/v1/schema"}

\* The pairs of clients (sender, route) of one run.
Scenarios ==
    { {<<"anon", "/api/v1/query/cypher">>, <<"keyed", "/api/v1/query/cypher">>},
      {<<"anon", "/api/v1/query/cypher">>, <<"anon", "/api/v1/query/natural">>},
      {<<"anon", "/api/v1/query/natural">>, <<"blank", "/api/v1/query/natural">>},
      {<<"keyed", "/api/v1/query/natural">>, <<"keyed", "/api/v1/schema">>},
      {<<"anon", "/api/v1/schema">>, <<"keyed", "/api/v1/query/cypher">>} }

\* A key function that looks at the address only.
rate_limit_key_by_address(x_api_key, addr) == <<"addr", addr>>

\* get_rate_limit_key: "api_key:<key>" when the header has a value, else the
\* client address.
get_rate_limit_key(x_api_key, addr) ==
    IF ~Falsy(x_api_key) THEN <<"api_key", x_api_key>> ELSE <<"addr", addr>>

\* The limit the decorator of a route sets (0: the route has no decorator).
route_limit(r) ==
    CASE r = "/api/v1/query/cypher" -> cypher_limit
      [] r = "/api/v1/query/natural" -> natural_limit
      [] OTHER -> 0

\* Limiter(default_limits=...): the default limit exists when rate limiting is
\* enabled.  setup_rate_limiting stores the limiter and registers the handler
\* of RateLimitExceeded, and adds no middleware: nothing applies the default.
default_limits == IF rate_limit_enabled THEN {rate_limit_calls} ELSE {}

\* The limiter's counter of a client: one per key and request path.
Counter(c) == <<get_rate_limit_key(Senders[c[1]].x_api_key, Senders[c[1]].addr), c[2]>>

\* A request of client c reaches its endpoint.  A decorated endpoint counts the
\* hit under (key, path) and raises RateLimitExceeded when the count passes its
\* limit; an endpoint without a decorator just runs.
limited_request ==
    /\ \E c \in clients :
          /\ rl_req' = Senders[c[1]]
          /\ rl_route' = c[2]
          /\ IF route_limit(c[2]) # 0
             THEN /\ hits[Counter(c)] < route_limit(c[2]) + Overrun
                  /\ hits' = [hits EXCEPT ![Counter(c)] = @ + 1]
                  /\ IF hits[Counter(c)] + 1 <= route_limit(c[2])
                     THEN /\ rl_status' = 200
                          /\ rl_handler' = "none"
                          /\ served' = [served EXCEPT ![c] = @ + 1]
                     ELSE /\ rl_status' = 429
                          /\ rl_handler' = IF rate_limit_enabled
                                           THEN "_rate_limit_exceeded_handler"
                                           ELSE "http_exception_handler"
                          /\ UNCHANGED served
             ELSE /\ served[c] < rate_limit_calls + Overrun
                  /\ served' = [served EXCEPT ![c] = @ + 1]
                  /\ rl_status' = 200
                  /\ rl_handler' = "none"
                  /\ UNCHANGED hits
    /\ UNCHANGED <<clients, rate_limit_enabled>>
    /\ UNCHANGED <<connVars, dbVars, engVars, authVars, httpVars, startVars, cacheVars, libVars>>

\* The window of a counter is over (one minute after its first hit): the
\* counter starts again from zero.
window_elapsed ==
    /\ \E c \in clients :
          /\ served[c] > 0
          /\ hits' = [k \in DOMAIN hits |-> IF k = Counter(c) THEN 0 ELSE hits[k]]
          /\ served' = [d \in clients |-> IF Counter(d) = Counter(c) THEN 0 ELSE served[d]]
    /\ UNCHANGED <<clients, rate_limit_enabled, rl_req, rl_route, rl_status, rl_handler>>
    /\ UNCHANGED <<connVars, dbVars, engVars, authVars, httpVars, startVars, cacheVars, libVars>>

(***************************************************************************)
(* Settings.get_config_dict (core/config.py).  A string is the sequence of *)
(* its parts, None is <<"None">>, and the fields of the dump are the       *)
(* secret fields and those the computed URLs are built from.               *)
(***************************************************************************)
\* The environments a Settings instance is built from.
Configs ==
    [neo4j_password : {"pw1", "pw2"},
     openai_api_key : {"sk1", "sk2"},
     secret_key     : {"sg1", "sg2"},
     redis_password : {"None", "", "rp1", "rp2"},
     api_keys       : {<< >>, <<"k1">>, <<"k2">>},
     redis_enabled  : BOOLEAN,
     redis_ssl      : BOOLEAN]

Elements(s) == {s[i] : i \in 1..Len(s)}

Str(x) == IF x = "" THEN << >> ELSE <<x>>

Bool(b) == IF b THEN <<"True">> ELSE <<"False">>

\* Settings.database_url
database_url(c) == <<"bolt://localhost:7687", "/", "neo4j">>

\* Settings.redis_url
redis_url(c) ==
    IF ~c.redis_enabled
    THEN <<"None">>
    ELSE LET auth == IF c.redis_password \notin {"None", ""}
                     THEN <<":", c.redis_password, "@">> ELSE << >>
             protocol == IF c.redis_ssl THEN "rediss" ELSE "redis"
         IN <<protocol, "://">> \o auth \o <<"localhost", ":", "6379", "/", "0">>

\* self.model_dump(): the fields and the computed fields.
model_dump(c) ==
    [neo4j_password |-> Str(c.neo4j_password),
     openai_api_key |-> Str(c.openai_api_key),
     secret_key     |-> Str(c.secret_key),
     redis_password |-> Str(c.redis_password),
     api_keys       |-> c.api_keys,
     redis_enabled  |-> Bool(c.redis_enabled),
     redis_ssl      |-> Bool(c.redis_ssl),
     database_url   |-> database_url(c),
     redis_url      |-> redis_url(c)]

sensitive_fields ==
    {"neo4j_password", "openai_api_key", "secret_key", "redis_password", "api_keys"}

\* Settings.get_config_dict()
get_config_dict(c) ==
    [f \in DOMAIN model_dump(c) |->
        IF f \in sensitive_fields THEN <<"***HIDDEN***">> ELSE model_dump(c)[f]]

\* A caller dumps the configuration.
dump_config ==
    /\ config_dict = << >>
    /\ config_dict' = get_config_dict(settings)
    /\ UNCHANGED <<settings, tokenVars, checkVars, schemaVars, healthVars>>
    /\ UNCHANGED <<connVars, dbVars, engVars, authVars, httpVars, rateVars, startVars,
                   cacheVars>>

(***************************************************************************)
(* TokenManager (core/security.py) over python-jose.  Times are minutes; a *)
(* time claim is a record: kind "int" for a NumericDate, kind "iso" for    *)
(* the text of an ISO-8601 date.                                           *)
(***************************************************************************)
\* The data a caller passes to create_access_token / create_refresh_token.
Payloads ==
    { [sub |-> "x"],
      [sub |-> "x", role |-> "admin"],
      [sub |-> "x", type |-> "custom"] }

\* The expires_delta argument: absent (None) or a timedelta in minutes.
NoDelta == [given |-> FALSE, minutes |-> 0]
Deltas == {NoDelta, [given |-> TRUE, minutes |-> 0], [given |-> TRUE, minutes |-> 1]}

NoToken == [made |-> "none", data |-> << >>, claims |-> << >>]
NoVerification ==
    [valid |-> FALSE, token_type |-> "none", at |-> 0, raised |-> FALSE,
     error_code |-> "none", detail |-> << >>, payload |-> << >>]

\* `if expires_delta:` then now + expires_delta, else now + the default.
expire(delta, default) ==
    IF delta.given /\ delta.minutes # 0 THEN now + delta.minutes ELSE now + default

\* to_encode = data.copy(); to_encode.update({exp, iat, type}); jwt.encode turns
\* the datetime under exp into a NumericDate and leaves the text under iat.
to_encode(data, delta, default, type) ==
    [k \in DOMAIN data \cup {"exp", "iat", "type"} |->
        CASE k = "exp"  -> [kind |-> "int", t |-> expire(delta, default)]
          [] k = "iat"  -> [kind |-> "iso", t |-> now]
          [] k = "type" -> type
          [] OTHER      -> data[k]]

\* jwt.decode(token, settings.secret_key, algorithms): the token carries the
\* signature of the same key; the claims are validated in the order iat, exp.
\* The result is the exception it raises, or "none".
jwt_decode(claims) ==
    IF claims["iat"].kind # "int" THEN "JWTClaimsError"
    ELSE IF claims["exp"].t < now THEN "ExpiredSignatureError"
    ELSE "none"

\* TokenManager.create_access_token(data, expires_delta)
create_access_token ==
    /\ \E data \in Payloads, delta \in Deltas :
          encoded_jwt' = [made |-> "access", data |-> data,
                    claims |-> to_encode(data, delta, access_token_expire_minutes,
                                         "access")]
    /\ UNCHANGED <<now, ticks, verified, configVars, checkVars, schemaVars, healthVars>>
    /\ UNCHANGED <<connVars, dbVars, engVars, authVars, httpVars, rateVars, startVars,
                   cacheVars>>

\* TokenManager.create_refresh_token(data, expires_delta)
create_refresh_token ==
    /\ \E data \in Payloads, delta \in Deltas :
          encoded_jwt' = [made |-> "refresh", data |-> data,
                    claims |-> to_encode(data, delta, refresh_token_expire_minutes,
                                         "refresh")]
    /\ UNCHANGED <<now, ticks, verified, configVars, checkVars, schemaVars, healthVars>>
    /\ UNCHANGED <<connVars, dbVars, engVars, authVars, httpVars, rateVars, startVars,
                   cacheVars>>

\* What verify_token(token, token_type) returns or raises.
verify_token_result(claims, token_type) ==
    LET e == jwt_decode(claims)
        Unauthorized(detail) ==
            [valid |-> TRUE, token_type |-> token_type, at |-> now, raised |-> TRUE,
             error_code |-> "UNAUTHORIZED", detail |-> detail, payload |-> << >>]
    IN CASE e = "ExpiredSignatureError" -> Unauthorized(<<"Token expiré">>)
         [] e = "JWTClaimsError" -> Unauthorized(<<"Claims du token invalides">>)
         [] e = "none" /\ claims["type"] # token_type ->
                Unauthorized(<<"Type de token invalide: attendu ", token_type>>)
         [] OTHER -> [valid |-> TRUE, token_type |-> token_type, at |-> now,
                      raised |-> FALSE, error_code |-> "none", detail |-> << >>,
                      payload |-> claims]

\* TokenManager.verify_token(token, token_type) on the last token issued
verify_encoded_jwt ==
    /\ encoded_jwt.made # "none"
    /\ \E token_type \in {"access", "refresh"} :
          verified' = verify_token_result(encoded_jwt.claims, token_type)
    /\ UNCHANGED <<now, ticks, encoded_jwt, configVars, checkVars, schemaVars, healthVars>>
    /\ UNCHANGED <<connVars, dbVars, engVars, authVars, httpVars, rateVars, startVars,
                   cacheVars>>

\* Time passes: one minute, or a whole access-token lifetime.
tick ==
    /\ ticks < MaxTicks
    /\ ticks' = ticks + 1
    /\ \E d \in {1, access_token_expire_minutes} : now' = now + d
    /\ UNCHANGED <<encoded_jwt, verified, configVars, checkVars, schemaVars, healthVars>>
    /\ UNCHANGED <<connVars, dbVars, engVars, authVars, httpVars, rateVars, startVars,
                   cacheVars>>

(***************************************************************************)
(* The read-only check of the optimizer and its duplicate in the utility   *)
(* library (utils/validators.py), on the same text                         *)
(***************************************************************************)
\* CypherValidator.WRITE_KEYWORDS, in the order of the list.
WRITE_KEYWORDS ==
    << <<"CREATE">>, <<"DELETE">>, <<"REMOVE">>, <<"SET">>, <<"MERGE">>,
       <<"DROP">>, <<"ALTER">>, <<"DETACH">> >>

\* The first write keyword found, 0 when there is none.
FirstWrite(text) ==
    IF \E k \in 1..Len(WRITE_KEYWORDS) : KeywordFound(text, WRITE_KEYWORDS[k])
    THEN CHOOSE k \in 1..Len(WRITE_KEYWORDS) :
            /\ KeywordFound(text, WRITE_KEYWORDS[k])
            /\ \A l \in 1..(k - 1) : ~KeywordFound(text, WRITE_KEYWORDS[l])
    ELSE 0

\* CypherValidator.is_read_only: (verdict, reason).  The reason
\* "Mot-clé non autorisé: <keyword>" is kept as the keyword it names.
validator_read_only(text) ==
    IF FirstWrite(text) # 0
    THEN [ok |-> FALSE, reason |-> WRITE_KEYWORDS[FirstWrite(text)]]
    ELSE [ok |-> TRUE, reason |-> NoReason]

\* The words of the texts checked, and the texts: words separated by white space.
QueryWords == {"MATCH", "n", "DETACH", "DELETE", "detach", "delete", "deleted_at"}

RECURSIVE TextsOf(_)
TextsOf(n) ==
    IF n = 1
    THEN {<<w>> : w \in QueryWords}
    ELSE TextsOf(n - 1) \cup
         {t \o <<sp, w>> : t \in TextsOf(n - 1), sp \in Whitespace, w \in QueryWords}

QueryTexts == TextsOf(MaxWords)

NoVerdict == [called |-> FALSE, ok |-> TRUE, reason |-> NoReason]

\* QueryOptimizer().is_read_only(cypher)
optimizer_is_read_only ==
    /\ ~optimizer_verdict.called
    /\ optimizer_verdict' =
          [called |-> TRUE, ok |-> is_read_only(cypher_text, enable_read_only_mode).ok,
           reason |-> is_read_only(cypher_text, enable_read_only_mode).reason]
    /\ UNCHANGED <<cypher_text, validator_verdict, configVars, tokenVars, schemaVars, healthVars>>
    /\ UNCHANGED <<connVars, dbVars, engVars, authVars, httpVars, rateVars, startVars,
                   cacheVars>>

\* CypherValidator.is_read_only(cypher)
validator_is_read_only ==
    /\ ~validator_verdict.called
    /\ validator_verdict' =
          [called |-> TRUE, ok |-> validator_read_only(cypher_text).ok,
           reason |-> validator_read_only(cypher_text).reason]
    /\ UNCHANGED <<cypher_text, optimizer_verdict, configVars, tokenVars, schemaVars, healthVars>>
    /\ UNCHANGED <<connVars, dbVars, engVars, authVars, httpVars, rateVars, startVars,
                   cacheVars>>

(***************************************************************************)
(* GraphSchema.get_connected_nodes and find_path (schemas/graph_schema.py) *)
(***************************************************************************)
PathLabels == {"A", "B", "C"}
PathRelTypes == {"R1", "R2", "R3"}

\* RelationshipSchema: the fields the search reads.
PathRelationships ==
    [source_label : PathLabels, target_label : PathLabels, bidirectional : BOOLEAN]

\* The schemas searched: every dict of up to three relationships over the labels.
PathSchemas ==
    { [nodes |-> PathLabels, relationships |-> rels, constraints |-> << >>,
       indexes |-> << >>] :
        rels \in UNION { [types -> PathRelationships] : types \in SUBSET PathRelTypes } }

NoPath == [found |-> FALSE, path |-> << >>]

\* GraphSchema.get_connected_nodes(label)
get_connected_nodes_undirected(label) ==
    {schema.relationships[r].target_label :
        r \in {x \in DOMAIN schema.relationships :
                  schema.relationships[x].source_label = label}}
    \cup
    {schema.relationships[r].source_label :
        r \in {x \in DOMAIN schema.relationships :
                  schema.relationships[x].target_label = label}}

get_connected_nodes(label) ==
    {schema.relationships[r].target_label :
        r \in {x \in DOMAIN schema.relationships :
                  schema.relationships[x].source_label = label}}
    \cup
    {schema.relationships[r].source_label :
        r \in {x \in DOMAIN schema.relationships :
                  /\ schema.relationships[x].target_label = label
                  /\ schema.relationships[x].bidirectional}}

\* The orders in which a for-loop can run over a set.
Orders(S) ==
    {o \in [1..Cardinality(S) -> S] : \A i, j \in 1..Cardinality(S) : o[i] = o[j] => i = j}

\* find_path(source, target) up to its loop: the deque holds the source.
find_path_call ==
    /\ fp_pc = "idle"
    /\ \E source \in PathLabels, target \in PathLabels :
          /\ fp_args' = <<source, target>>
          /\ queue' = << [current |-> source, path |-> <<source>>] >>
          /\ visited' = {source}
    /\ fp_pc' = "loop"
    /\ UNCHANGED <<fp_result, builderVars, configVars, tokenVars, checkVars, healthVars>>
    /\ UNCHANGED <<connVars, dbVars, engVars, authVars, httpVars, rateVars, startVars,
                   cacheVars>>

\* One test of `while queue:` and, if it holds, one run of the loop body.
find_path_loop ==
    /\ fp_pc = "loop"
    /\ IF queue = << >>
       THEN /\ fp_result' = NoPath
            /\ fp_pc' = "done"
            /\ UNCHANGED <<queue, visited>>
       ELSE LET current == Head(queue).current
                path == Head(queue).path
            IN IF current = fp_args[2]
               THEN /\ fp_result' = [found |-> TRUE, path |-> path]
                    /\ fp_pc' = "done"
                    /\ UNCHANGED <<queue, visited>>
               ELSE /\ \E o \in Orders(get_connected_nodes(current) \ visited) :
                          queue' = Tail(queue) \o
                                   [i \in DOMAIN o |->
                                      [current |-> o[i], path |-> Append(path, o[i])]]
                    /\ visited' = visited \cup get_connected_nodes(current)
                    /\ UNCHANGED <<fp_pc, fp_result>>
    /\ UNCHANGED <<fp_args, builderVars, configVars, tokenVars, checkVars, healthVars>>
    /\ UNCHANGED <<connVars, dbVars, engVars, authVars, httpVars, rateVars, startVars,
                   cacheVars>>

(***************************************************************************)
(* GraphSchemaBuilder and GraphSchema.validate_schema                      *)
(***************************************************************************)
\* Labels and relationship types the builder is called with; "person" and
\* "knows" fail the validators of NodeSchema and RelationshipSchema.
BuilderLabels == {"Person", "Company", "person"}
BuilderRelTypes == {"WORKS_AT", "KNOWS", "knows"}

\* The label of a constraint or an index: a node label or a relationship type.
ItemLabels == {"Person", "WORKS_AT"}

\* NodeSchema.validate_label: not empty and the first character is upper case.
validate_label(v) == v # "person"

\* RelationshipSchema.validate_type: the type is in upper case.
validate_type(v) == v # "knows"

\* GraphSchema.validate_schema(): is_valid
validate_schema_without_indexes ==
    /\ \A r \in DOMAIN schema.relationships :
          /\ schema.relationships[r].source_label \in schema.nodes
          /\ schema.relationships[r].target_label \in schema.nodes
    /\ \A i \in DOMAIN schema.constraints : schema.constraints[i] \in schema.nodes

validate_schema ==
    /\ \A r \in DOMAIN schema.relationships :
          /\ schema.relationships[r].source_label \in schema.nodes
          /\ schema.relationships[r].target_label \in schema.nodes
    /\ \A i \in DOMAIN schema.constraints : schema.constraints[i] \in schema.nodes
    /\ \A i \in DOMAIN schema.indexes : schema.indexes[i] \in schema.nodes

\* GraphSchemaBuilder.add_node(label)
add_node ==
    /\ \E label \in BuilderLabels :
          IF validate_label(label)
          THEN /\ schema' = [schema EXCEPT !.nodes = @ \cup {label}]
               /\ add_raised' = FALSE
          ELSE add_raised' = TRUE /\ UNCHANGED schema
    /\ UNCHANGED <<built, pathVars, configVars, tokenVars, checkVars, healthVars>>
    /\ UNCHANGED <<connVars, dbVars, engVars, authVars, httpVars, rateVars, startVars,
                   cacheVars>>

\* GraphSchemaBuilder.add_relationship(rel_type, source_label, target_label)
add_relationship ==
    /\ \E rel_type \in BuilderRelTypes, source_label \in BuilderLabels,
          target_label \in BuilderLabels :
          IF validate_type(rel_type)
          THEN /\ schema' =
                    [schema EXCEPT !.relationships =
                        [t \in DOMAIN @ \cup {rel_type} |->
                            IF t = rel_type
                            THEN [source_label |-> source_label,
                                  target_label |-> target_label,
                                  bidirectional |-> FALSE]
                            ELSE @[t]]]
               /\ add_raised' = FALSE
          ELSE add_raised' = TRUE /\ UNCHANGED schema
    /\ UNCHANGED <<built, pathVars, configVars, tokenVars, checkVars, healthVars>>
    /\ UNCHANGED <<connVars, dbVars, engVars, authVars, httpVars, rateVars, startVars,
                   cacheVars>>

\* GraphSchemaBuilder.add_constraint(constraint)
add_constraint ==
    /\ Len(schema.constraints) < MaxItems
    /\ \E label \in ItemLabels :
          schema' = [schema EXCEPT !.constraints = Append(@, label)]
    /\ add_raised' = FALSE
    /\ UNCHANGED <<built, pathVars, configVars, tokenVars, checkVars, healthVars>>
    /\ UNCHANGED <<connVars, dbVars, engVars, authVars, httpVars, rateVars, startVars,
                   cacheVars>>

\* GraphSchemaBuilder.add_index(index)
add_index ==
    /\ Len(schema.indexes) < MaxItems
    /\ \E label \in ItemLabels :
          schema' = [schema EXCEPT !.indexes = Append(@, label)]
    /\ add_raised' = FALSE
    /\ UNCHANGED <<built, pathVars, configVars, tokenVars, checkVars, healthVars>>
    /\ UNCHANGED <<connVars, dbVars, engVars, authVars, httpVars, rateVars, startVars,
                   cacheVars>>

\* GraphSchemaBuilder.build(): the schema, or ValueError.
build ==
    /\ built' = IF validate_schema THEN "returned" ELSE "raised"
    /\ UNCHANGED <<schema, add_raised, pathVars, configVars, tokenVars, checkVars, healthVars>>
    /\ UNCHANGED <<connVars, dbVars, engVars, authVars, httpVars, rateVars, startVars,
                   cacheVars>>

(***************************************************************************)
(* The health endpoint (api/v1/endpoints/health.py) and the construction   *)
(* of the cache service it probes                                          *)
(***************************************************************************)
NoHealth ==
    [valid |-> FALSE, neo4j |-> "none", llm |-> "none", cache |-> "none",
     cache_message |-> "none", status |-> "none", store_reachable |-> FALSE]

\* CacheService.__init__: enabled = settings.redis_enabled and REDIS_AVAILABLE;
\* a ping that fails turns it off.
cache_service_init ==
    /\ services = "unbuilt"
    /\ services' = "built"
    /\ cache_enabled' = (redis_enabled /\ redis_available /\ store_reachable)
    /\ UNCHANGED <<redis_enabled, redis_available, store_reachable, neo4j_up, llm_up,
                   health>>
    /\ UNCHANGED <<enable_read_only_mode, enable_query_validation, cache, kind, epc,
                   question, context, use_cache, cypher, results, answer, hit, eret,
                   trace, last>>
    /\ UNCHANGED <<connVars, dbVars, authVars, httpVars, rateVars, startVars, cacheVars,
                   configVars, tokenVars, checkVars, schemaVars>>

\* A back end goes down or comes back.
environment_change ==
    /\ \E s \in BOOLEAN, n \in BOOLEAN, l \in BOOLEAN :
          /\ <<s, n, l>> # <<store_reachable, neo4j_up, llm_up>>
          /\ store_reachable' = s
          /\ neo4j_up' = n
          /\ llm_up' = l
    /\ UNCHANGED <<redis_enabled, redis_available, services, health>>
    /\ UNCHANGED <<connVars, dbVars, engVars, authVars, httpVars, rateVars, startVars,
                   cacheVars, configVars, tokenVars, checkVars, schemaVars>>

\* CacheService.health_check(): True when disabled, else the ping.
cache_health_check == IF ~cache_enabled THEN TRUE ELSE store_reachable

\* The component status of the database and of the language model.
component_status(healthy) == IF healthy THEN "healthy" ELSE "unavailable"

\* The overall status.
global_status_all_or_nothing(neo4j_healthy, llm_healthy) ==
    IF neo4j_healthy /\ llm_healthy THEN "healthy" ELSE "unavailable"

global_status(neo4j_healthy, llm_healthy) ==
    IF neo4j_healthy /\ llm_healthy THEN "healthy"
    ELSE IF neo4j_healthy \/ llm_healthy THEN "degraded"
    ELSE "unavailable"

\* GET /api/v1/health
health_check ==
    /\ services = "built"
    /\ health' =
          [valid |-> TRUE,
           neo4j |-> component_status(neo4j_up),
           llm |-> component_status(llm_up),
           cache |-> IF cache_health_check THEN "healthy" ELSE "degraded",
           cache_message |-> IF cache_enabled THEN "Activé" ELSE "Désactivé",
           status |-> global_status(neo4j_up, llm_up),
           store_reachable |-> store_reachable]
    /\ UNCHANGED <<redis_enabled, redis_available, store_reachable, neo4j_up, llm_up,
                   services>>
    /\ UNCHANGED <<connVars, dbVars, engVars, authVars, httpVars, rateVars, startVars,
                   cacheVars, configVars, tokenVars, checkVars, schemaVars>>

(***************************************************************************)
(* Specifications                                                          *)
(***************************************************************************)
\* The database layer before any call.
DatabaseAtRest ==
    /\ driver = 0
    /\ created = 0
    /\ closedDrivers = {}
    /\ connRes = "none"
    /\ connectSucceeded = FALSE
    /\ dbop = "none"
    /\ dbpc = "idle"
    /\ attempt = 0
    /\ tries = 0
    /\ succAt = 0
    /\ cur = 0
    /\ bodyOk = TRUE
    /\ nsess = 0
    /\ sessions = {}
    /\ closes = << >>
    /\ dbout = "none"
    /\ surfaced = NoResponse

\* The engine and the cache before any call.
EngineAtRest ==
    /\ cache = << >>
    /\ kind = "none"
    /\ epc = "idle"
    /\ question = "none"
    /\ context = "None"
    /\ use_cache = FALSE
    /\ cypher = << >>
    /\ results = << >>
    /\ answer = "none"
    /\ hit = FALSE
    /\ eret = NoRet
    /\ trace = << >>
    /\ last = NoLast

\* Defaults of Settings: read-only mode and query validation on, Redis off.
DefaultSettings ==
    /\ enable_read_only_mode = TRUE
    /\ enable_query_validation = TRUE
    /\ cache_enabled = FALSE

\* The stack has seen no request.
HttpAtRest ==
    /\ request_id = 0
    /\ nreq = 0
    /\ exc = "none"
    /\ body = NoBody
    /\ headers = {}
    /\ seen = << >>

\* No client, no counter.
RateAtRest ==
    /\ clients = {}
    /\ hits = << >>
    /\ served = << >>
    /\ rate_limit_enabled = TRUE
    /\ rl_req = NoSender
    /\ rl_route = "none"
    /\ rl_status = 0
    /\ rl_handler = "none"

\* The process has been created and its lifespan has not started.
StartAtRest == lifecycle = "created" /\ startup_error = "none"

NoGet == [valid |-> FALSE, key |-> << >>, answered |-> FALSE, found |-> FALSE,
          value |-> NoValue]

\* No cache call yet.
CacheAtRest ==
    /\ ttl_left = << >>
    /\ advances = 0
    /\ cset = << >>
    /\ cget = NoGet

\* No request yet.
AuthAtRest ==
    /\ apc = "idle"
    /\ req = [path |-> "/", x_api_key |-> "None", authorization |-> << >>]
    /\ state_user = "None"
    /\ state_api_key = "None"
    /\ dep_key = "None"
    /\ handler_ran = FALSE
    /\ status = 0

\* Defaults of Settings: API-key enforcement on, no key listed.
DefaultAuthSettings == api_key_enabled = TRUE /\ api_keys = {}

\* The default Settings, not dumped.
ConfigAtRest ==
    /\ settings = [neo4j_password |-> "pw1", openai_api_key |-> "sk1",
                   secret_key |-> "sg1", redis_password |-> "None",
                   api_keys |-> << >>, redis_enabled |-> FALSE, redis_ssl |-> FALSE]
    /\ config_dict = << >>

\* No token issued, none verified.
TokenAtRest ==
    /\ now = 0
    /\ ticks = 0
    /\ encoded_jwt = NoToken
    /\ verified = NoVerification

\* No text checked.
CheckAtRest ==
    /\ cypher_text = << >>
    /\ optimizer_verdict = NoVerdict
    /\ validator_verdict = NoVerdict

\* GraphSchema(name=...): an empty schema; nothing built, no search running.
EmptySchema ==
    [nodes |-> {}, relationships |-> << >>, constraints |-> << >>, indexes |-> << >>]

PathAtRest ==
    /\ fp_pc = "idle"
    /\ fp_args = <<"none", "none">>
    /\ queue = << >>
    /\ visited = {}
    /\ fp_result = NoPath

SchemaAtRest ==
    /\ schema = EmptySchema
    /\ built = "none"
    /\ add_raised = FALSE
    /\ PathAtRest

\* Redis off (the default), every back end up, the services built, no health
\* request yet.
HealthAtRest ==
    /\ redis_enabled = FALSE
    /\ redis_available = TRUE
    /\ store_reachable = TRUE
    /\ neo4j_up = TRUE
    /\ llm_up = TRUE
    /\ services = "built"
    /\ health = NoHealth

LibAtRest == ConfigAtRest /\ TokenAtRest /\ CheckAtRest /\ SchemaAtRest /\ HealthAtRest

InitDatabase ==
    /\ LibAtRest
    /\ DatabaseAtRest /\ EngineAtRest /\ DefaultSettings /\ AuthAtRest
    /\ DefaultAuthSettings /\ HttpAtRest /\ RateAtRest /\ StartAtRest /\ CacheAtRest

InitStartup == InitDatabase

NextStartup ==
    \/ lifespan_connect
    \/ lifespan_fetch
    \/ lifespan_fetched
    \/ lifespan_serving
    \/ lifespan_shutdown
    \/ get_session_enter
    \/ session_body
    \/ get_session_exit
    \/ retry_next

SpecStartup == InitStartup /\ [][NextStartup]_vars

InitAuth ==
    /\ LibAtRest
    /\ DatabaseAtRest
    /\ EngineAtRest
    /\ DefaultSettings
    /\ AuthAtRest
    /\ api_key_enabled \in BOOLEAN
    /\ api_keys \in SUBSET KnownKeys
    /\ HttpAtRest /\ RateAtRest /\ StartAtRest /\ CacheAtRest

\* The clients of the run are chosen; their counters start at zero.
InitRate ==
    /\ LibAtRest
    /\ DatabaseAtRest /\ EngineAtRest /\ DefaultSettings /\ AuthAtRest
    /\ DefaultAuthSettings /\ HttpAtRest /\ StartAtRest /\ CacheAtRest
    /\ clients \in Scenarios
    /\ hits = [k \in {Counter(c) : c \in {d \in clients : route_limit(d[2]) # 0}} |-> 0]
    /\ served = [c \in clients |-> 0]
    /\ rate_limit_enabled \in BOOLEAN
    /\ rl_req = NoSender
    /\ rl_route = "none"
    /\ rl_status = 0
    /\ rl_handler = "none"

InitCache ==
    /\ LibAtRest
    /\ DatabaseAtRest /\ EngineAtRest /\ AuthAtRest /\ DefaultAuthSettings
    /\ HttpAtRest /\ RateAtRest /\ StartAtRest /\ CacheAtRest
    /\ enable_read_only_mode = TRUE
    /\ enable_query_validation = TRUE
    /\ cache_enabled \in BOOLEAN

NextCache == cache_service_set \/ cache_service_get \/ advance

SpecCache == InitCache /\ [][NextCache]_vars

NextRate == limited_request \/ window_elapsed

SpecRate == InitRate /\ [][NextRate]_vars

NextAuth == dispatch \/ request_logging \/ route \/ request_completed

SpecAuth == InitAuth /\ [][NextAuth]_vars

InitEngine ==
    /\ LibAtRest
    /\ DatabaseAtRest
    /\ EngineAtRest
    /\ enable_read_only_mode \in BOOLEAN
    /\ enable_query_validation \in BOOLEAN
    /\ cache_enabled \in BOOLEAN
    /\ AuthAtRest
    /\ DefaultAuthSettings
    /\ HttpAtRest /\ RateAtRest /\ StartAtRest /\ CacheAtRest

NextEngine ==
    \/ process_natural_query
    \/ get_schema
    \/ generate
    \/ process_cypher_query
    \/ optimize_step
    \/ read_only_step
    \/ validate_step
    \/ execute_step
    \/ format_step
    \/ store_step
    \/ cache_expire
    \/ validate_query

SpecEngine == InitEngine /\ [][NextEngine]_vars

NextDatabase ==
    \/ connect
    \/ close
    \/ \E op \in DbOps : db_call(op)
    \/ get_session_enter
    \/ session_body
    \/ get_session_exit
    \/ retry_next

SpecDatabase == InitDatabase /\ [][NextDatabase]_vars


InitToken == InitDatabase

NextToken ==
    \/ create_access_token
    \/ create_refresh_token
    \/ verify_encoded_jwt
    \/ tick

SpecToken == InitToken /\ [][NextToken]_vars

InitCheck ==
    /\ DatabaseAtRest /\ EngineAtRest /\ AuthAtRest /\ DefaultAuthSettings
    /\ HttpAtRest /\ RateAtRest /\ StartAtRest /\ CacheAtRest
    /\ ConfigAtRest /\ TokenAtRest /\ SchemaAtRest /\ HealthAtRest
    /\ enable_read_only_mode \in BOOLEAN
    /\ enable_query_validation = TRUE
    /\ cache_enabled = FALSE
    /\ cypher_text \in QueryTexts
    /\ optimizer_verdict = NoVerdict
    /\ validator_verdict = NoVerdict

NextCheck == optimizer_is_read_only \/ validator_is_read_only

SpecCheck == InitCheck /\ [][NextCheck]_vars

\* A schema with some relationships between the labels, and no search yet.
InitPath ==
    /\ DatabaseAtRest /\ EngineAtRest /\ DefaultSettings /\ AuthAtRest
    /\ DefaultAuthSettings /\ HttpAtRest /\ RateAtRest /\ StartAtRest /\ CacheAtRest
    /\ ConfigAtRest /\ TokenAtRest /\ CheckAtRest /\ HealthAtRest
    /\ schema \in PathSchemas
    /\ built = "none"
    /\ add_raised = FALSE
    /\ PathAtRest

NextPath == find_path_call \/ find_path_loop

SpecPath == InitPath /\ [][NextPath]_vars /\ WF_vars(find_path_loop)

InitBuilder == InitDatabase

NextBuilder == add_node \/ add_relationship \/ add_constraint \/ add_index \/ build

SpecBuilder == InitBuilder /\ [][NextBuilder]_vars

\* The process starts: the configuration and the environment are given, the
\* service singletons are not built yet.
InitHealth ==
    /\ DatabaseAtRest /\ EngineAtRest /\ DefaultSettings /\ AuthAtRest
    /\ DefaultAuthSettings /\ HttpAtRest /\ RateAtRest /\ StartAtRest /\ CacheAtRest
    /\ ConfigAtRest /\ TokenAtRest /\ CheckAtRest /\ SchemaAtRest
    /\ redis_enabled \in BOOLEAN
    /\ redis_available \in BOOLEAN
    /\ store_reachable \in BOOLEAN
    /\ neo4j_up \in BOOLEAN
    /\ llm_up \in BOOLEAN
    /\ services = "unbuilt"
    /\ health = NoHealth

NextHealth == cache_service_init \/ environment_change \/ health_check

SpecHealth == InitHealth /\ [][NextHealth]_vars

InitConfig ==
    /\ DatabaseAtRest /\ EngineAtRest /\ DefaultSettings /\ AuthAtRest
    /\ DefaultAuthSettings /\ HttpAtRest /\ RateAtRest /\ StartAtRest /\ CacheAtRest
    /\ settings \in Configs
    /\ config_dict = << >>
    /\ TokenAtRest /\ CheckAtRest /\ SchemaAtRest /\ HealthAtRest

NextConfig == dump_config

SpecConfig == InitConfig /\ [][NextConfig]_vars

(***************************************************************************)
(* Claims about the database layer (checked under SpecDatabase)            *)
(***************************************************************************)

\* C6: a call of execute_query enters the wrapped function at most 3 times,
\* makes no attempt after the first one that returned, and is over once the
\* third attempt has failed: it never waits for a fourth, and while it is not
\* over it can always take its next step.
C6_AtMostThreeAttempts ==
    dbop = "execute_query" =>
        /\ tries <= 3
        /\ attempt <= 3
        /\ tries <= attempt
        /\ (succAt # 0 => dbpc = "idle" /\ dbout = "rows" /\ tries = succAt)
        /\ (dbpc = "backoff" => attempt < 3)
        /\ (dbpc # "idle" => ENABLED NextDatabase)

\* C6 witness: a call whose three attempts all failed has ended.
C6_Witness ==
    dbop = "execute_query" /\ dbpc = "idle" /\ tries = 3 /\ succAt = 0
        /\ dbout = "RetryError"

\* C7 (as claimed): when all three attempts of execute_query have failed, the
\* caller gets a QueryExecutionError, rendered with status 500 and the code
\* QUERY_EXECUTION_ERROR.
C7_ExhaustedIsQueryExecutionError ==
    (dbop = "execute_query" /\ dbpc = "idle" /\ tries = 3 /\ succAt = 0) =>
        /\ dbout = "QueryExecutionError"
        /\ surfaced = [status |-> 500, error_code |-> "QUERY_EXECUTION_ERROR"]

\* C8: every session opened through get_session is closed exactly once when
\* its block exits, normally or by an exception: a session is open only while
\* its own block runs, and no session is open once an operation has returned
\* or raised, nor between two attempts of the retry loop.
C8_SessionsClosedExactlyOnce ==
    /\ \A s \in 1..nsess : closes[s] = (IF s \in sessions THEN 0 ELSE 1)
    /\ sessions = (IF dbpc \in {"body", "exit"} THEN {cur} ELSE {})

\* C8 witness: an attempt of execute_query raised inside its block, the retry
\* loop waits, and the attempt's session is closed.
C8_Witness ==
    /\ dbop = "execute_query" /\ dbpc = "backoff" /\ ~bodyOk
    /\ nsess >= 1 /\ closes[nsess] = 1 /\ sessions = {}

\* C9: connect on a connection that has a driver creates no driver and leaves
\* the driver handle as it is, and whatever connect and close calls are made,
\* at most one driver that was not closed exists.
C9_ConnectIdempotentOneDriver ==
    [][ /\ Cardinality(liveDrivers') <= 1
        /\ (driver # 0 /\ connect) =>
              (driver' = driver /\ created' = created
                 /\ closedDrivers' = closedDrivers) ]_vars

\* C9 witness: a second connect met the driver of the first.
C9_Witness ==
    connRes = "already_connected" /\ driver # 0 /\ liveDrivers = {driver}

\* C10 (as claimed): as long as no connect call has succeeded, also after a
\* connect call that failed with Neo4jConnectionError, there is no driver: the
\* driver property raises Neo4jConnectionError and the next connect call takes
\* the path that builds a driver.
C10_DisconnectedUntilConnectSucceeds ==
    ~connectSucceeded =>
        /\ driver = 0
        /\ driver_property = "Neo4jConnectionError"


(***************************************************************************)
(* Further claims about the connection (checked under SpecDatabase)        *)
(***************************************************************************)

\* C11: a close that returns leaves the connection disconnected: no driver
\* handle, is_connected false whatever the server answers, the driver property
\* raising Neo4jConnectionError.  A close on a disconnected connection changes
\* nothing and raises nothing.  A connect on a disconnected connection takes
\* the building path, and the driver it installs was never used before.
C11_CloseResetsAndIsIdempotent ==
    [][ /\ (close /\ connRes' \in {"closed", "close_noop"}) =>
              /\ driver' = 0
              /\ \A verifyOk \in BOOLEAN : ~is_connected(verifyOk)'
              /\ driver_property' = "Neo4jConnectionError"
        /\ (close /\ driver = 0) =>
              /\ connRes' = "close_noop"
              /\ UNCHANGED <<driver, created, closedDrivers, connectSucceeded>>
        /\ (connect /\ driver = 0) =>
              /\ connRes' # "already_connected"
              /\ (driver' # 0 =>
                    driver' \notin (1..created) /\ driver' \notin closedDrivers') ]_vars

\* C11 witness: after a close that released a driver, a connect has built
\* another one.
C11_Witness ==
    /\ closedDrivers # {} /\ driver # 0 /\ driver \notin closedDrivers
    /\ connRes = "connected"

(***************************************************************************)
(* Claims about startup (checked under SpecStartup)                        *)
(***************************************************************************)

\* C12: the application serves only after connect has succeeded; when connect
\* raises, the startup ends with that error and never serves afterwards; the
\* schema fetch and the database-info fetch never end the startup.
C12_ServesOnlyAfterConnect ==
    [][ /\ (lifecycle' = "serving" => connectSucceeded')
        /\ (lifespan_connect /\ connRes' = "Neo4jConnectionError") =>
              (lifecycle' = "aborted" /\ startup_error' = "Neo4jConnectionError")
        /\ (lifecycle = "aborted" => lifecycle' = "aborted")
        /\ (lifespan_fetched => lifecycle' # "aborted") ]_vars

\* C12 witness: the application serves although the database-info fetch failed
\* inside the manager.
C12_Witness ==
    /\ lifecycle = "serving" /\ connectSucceeded
    /\ nsess = 2 /\ dbop = "get_database_info" /\ ~bodyOk /\ dbpc = "idle"


(***************************************************************************)
(* Claims about the engine (checked under SpecEngine)                      *)
(***************************************************************************)
TraceOps == [i \in 1..Len(trace) |-> trace[i].op]

\* The key of the current natural call.
CallKey == generate_key(question, ContextParams(context))

\* C1: with read-only mode on, no pipeline hands to the execution step a text
\* in which is_read_only finds a dangerous keyword: every executed text passed
\* the check before, and a check that finds a keyword is the call's last step,
\* which raises InvalidCypherQueryError with the reason naming that keyword.
C1_ReadOnlyNeverExecuted ==
    (enable_read_only_mode /\ kind # "validate") =>
        \A i \in 1..Len(trace) :
            /\ trace[i].op = "execute_query" =>
                  /\ FirstDangerous(trace[i].q) = 0
                  /\ \E j \in 1..(i - 1) :
                        /\ trace[j].op = "is_read_only"
                        /\ trace[j].q = trace[i].q
                        /\ trace[j].ok
            /\ (trace[i].op = "is_read_only" /\ FirstDangerous(trace[i].q) # 0) =>
                  /\ i = Len(trace)
                  /\ epc = "idle"
                  /\ eret = Raise("InvalidCypherQueryError",
                                  DANGEROUS_KEYWORDS[FirstDangerous(trace[i].q)])

\* C1 witness: a direct query with DETACH DELETE was refused with the reason
\* of the first keyword found, and nothing was executed.
C1_Witness ==
    /\ enable_read_only_mode /\ kind = "cypher" /\ epc = "idle"
    /\ eret = Raise("InvalidCypherQueryError", <<"DELETE">>)
    /\ \A i \in 1..Len(trace) : trace[i].op # "execute_query"

\* The steps of a natural call that misses the cache, in the claimed order
\* (execute_cypher validates once more when query validation is enabled).
NaturalOrder ==
    <<"get_schema", "generate", "optimize", "is_read_only", "validate_cypher">>
    \o (IF enable_query_validation THEN <<"validate_cypher">> ELSE << >>)
    \o <<"execute_query", "format_natural_response">>
    \o (IF use_cache /\ cache_enabled THEN <<"cache_set">> ELSE << >>)

\* C3: a natural call that misses the cache makes its steps in the order
\* schema fetch, generation, optimize, read-only check, validation, execution,
\* formatting, cache write; execution starts only after a validation of the
\* same text succeeded, formatting only after execution returned rows, the
\* cache write only after formatting; a step that fails is the last one.
C3_StepOrder ==
    (kind = "natural" /\ ~hit) =>
        LET t == IF trace # << >> /\ trace[1].op = "cache_get" THEN Tail(trace) ELSE trace
        IN /\ Len(t) <= Len(NaturalOrder)
           /\ \A i \in 1..Len(t) :
                /\ t[i].op = NaturalOrder[i]
                /\ (i < Len(t) => t[i].ok)
                /\ t[i].op = "execute_query" =>
                      \E j \in 1..(i - 1) :
                         t[j].op = "validate_cypher" /\ t[j].ok /\ t[j].q = t[i].q
                /\ t[i].op = "format_natural_response" =>
                      \E j \in 1..(i - 1) : t[j].op = "execute_query" /\ t[j].ok
                /\ t[i].op = "cache_set" =>
                      \E j \in 1..(i - 1) : t[j].op = "format_natural_response"

\* C3 witness: a natural call missed the cache, ran every step and returned
\* after writing the cache.
C3_Witness ==
    /\ kind = "natural" /\ ~hit /\ epc = "idle" /\ eret.kind = "return"
    /\ trace # << >> /\ trace[Len(trace)].op = "cache_set"

\* C4: when process_natural_query is called with use_cache true, the cache is
\* enabled and the store holds an entry for (question, {context}), the call
\* returns the cached tuple at once: its only step is the lookup, and the
\* store is left as it was.
C4_CacheHitReturnsAtOnce ==
    [][ (/\ process_natural_query
         /\ use_cache' /\ cache_enabled
         /\ trace'[1].ok
         /\ generate_key(question', ContextParams(context')) \in DOMAIN cache) =>
           LET cached == cache[generate_key(question', ContextParams(context'))]
           IN /\ hit'
              /\ epc' = "idle"
              /\ eret' = Return(cached.cypher, cached.results,
                                cached.execution_time, cached.answer)
              /\ TraceOps' = <<"cache_get">>
              /\ cache' = cache ]_vars

\* C4 witness: a call was served from the cache with rows decoded from JSON.
C4_Witness ==
    /\ kind = "natural" /\ hit /\ epc = "idle" /\ eret.kind = "return"
    /\ eret.results = <<"list">> /\ TraceOps = <<"cache_get">>

\* The current natural call asks for the cache and comes after the call that
\* `last` records, with the same question and context and no expiry between.
IsSecondCall ==
    /\ kind = "natural" /\ use_cache
    /\ last.valid /\ last.key = CallKey
    /\ ~(epc = "idle" /\ ~hit /\ eret.kind = "return")

\* json.loads(json.dumps(...)) on a returned tuple.
JsonReturn(r) == Return(r.cypher, JsonRows(r.results), r.time, r.answer)

C2_HandlerOnlyWithCredential ==
    api_key_enabled =>
        /\ (handler_ran /\ req.path \notin PUBLIC_ROUTES) =>
              \/ req.x_api_key \in api_keys
              \/ BearerPasses(req.authorization)
        /\ (state_api_key # "None" => state_api_key \in api_keys)
        /\ (dep_key # "None" => dep_key \in api_keys)
        /\ (api_keys = {} => state_api_key = "None" /\ dep_key = "None")

\* C2 witness: with enforcement on, the handler of a protected route ran for a
\* request whose key is in the allow-list; the key passed the middleware and
\* the route's dependency, and no bearer token was consulted.
C2_Witness ==
    /\ api_key_enabled /\ api_keys = {"k1"} /\ apc = "idle"
    /\ req.path = "/api/v1/query/cypher" /\ req.x_api_key = "k1"
    /\ handler_ran /\ status = 200
    /\ state_api_key = "k1" /\ dep_key = "k1" /\ state_user = "None"

\* A request has been answered.
Answered == apc = "idle" /\ status # 0

\* C13 (as claimed): with enforcement on, a request to a non-public path with
\* neither a listed API key nor a valid bearer access token is answered 401
\* with the header WWW-Authenticate.
C13_Rejected401WithChallenge ==
    (/\ api_key_enabled /\ Answered
     /\ req.path \notin PUBLIC_ROUTES
     /\ req.x_api_key \notin api_keys
     /\ ~BearerPasses(req.authorization)) =>
        /\ status = 401
        /\ "WWW-Authenticate" \in headers

\* C14 (as claimed): with enforcement on, a request to a protected route that
\* presents a listed API key or a valid bearer access token is admitted: its
\* handler runs, unless the body it sent does not bind.
C14_KeyOrBearerAdmitted ==
    (/\ api_key_enabled /\ Answered
     /\ req.path \in KeyedRoutes
     /\ (req.x_api_key \in api_keys \/ BearerPasses(req.authorization))) =>
        (handler_ran \/ body.error_code = "VALIDATION_ERROR")

\* C15 (as claimed): GET /, GET /favicon.ico and GET /api/v1/health are served
\* to a request without credentials, whether enforcement is on or off.
C15_OpenRoutesServed ==
    (/\ Answered
     /\ req.path \in {"/", "/favicon.ico", "/api/v1/health"}
     /\ req.x_api_key = "None" /\ req.authorization = << >>) =>
        (handler_ran /\ status \in {200, 204})

\* C18 (as claimed): every answered request went through request logging, and
\* did so before authentication; it got the newest correlation id, and its
\* response carries X-Request-ID and X-Process-Time.
C18_LoggedBeforeAuth ==
    Answered =>
        /\ seen # << >> /\ seen[1] = "request_logging"
        /\ request_id # 0 /\ request_id = nreq
        /\ {"X-Request-ID", "X-Process-Time"} \subseteq headers

\* C19: when a handler raised an exception that is no domain error, no
\* validation error and no HTTP exception, the answer is 500 with success
\* false, the code INTERNAL_ERROR and the fixed message, which is not the text
\* of the exception.
C19_UnhandledIsGeneric500 ==
    (apc = "idle" /\ handler_ran /\ exc \in OtherExceptions) =>
        /\ status = 500
        /\ body = [success |-> FALSE, error_code |-> "INTERNAL_ERROR",
                   message |-> GenericMessage]
        /\ body.message # ExcText(exc)

\* C19 witness: a handler ended with tenacity's RetryError and the caller got
\* the generic envelope.
C19_Witness ==
    /\ apc = "idle" /\ handler_ran /\ exc = "RetryError"
    /\ req.path = "/api/v1/query/cypher" /\ status = 500
    /\ body.error_code = "INTERNAL_ERROR"

(***************************************************************************)
(* Claims about rate limiting (checked under SpecRate)                     *)
(***************************************************************************)
\* The rate-limit key as claimed: the value of X-API-Key when the request has
\* one, else the client address.
ClaimedKey(sender) ==
    IF sender.x_api_key \notin {"None", ""}
    THEN <<"api_key", sender.x_api_key>> ELSE <<"addr", sender.addr>>

\* Requests with the key of `sender` that `r` has served in the current window.
ServedFor(sender, r) ==
    LET same == {c \in clients : c[2] = r /\ ClaimedKey(Senders[c[1]]) = ClaimedKey(sender)}
        RECURSIVE Sum(_)
        Sum(S) == IF S = {} THEN 0
                  ELSE LET c == CHOOSE x \in S : TRUE IN served[c] + Sum(S \ {c})
    IN Sum(same)

\* C16: a request to /query/cypher is admitted exactly when fewer than 50
\* requests of its key were admitted there in the current window, and is
\* answered 429 otherwise; likewise /query/natural with 30.  Requests of
\* another key or to the other route do not count.
C16_RouteCeilingsPerKey ==
    [][ limited_request =>
          /\ (rl_route' = "/api/v1/query/cypher" =>
                /\ (rl_status' = 200) = (ServedFor(rl_req', rl_route') < 50)
                /\ rl_status' \in {200, 429})
          /\ (rl_route' = "/api/v1/query/natural" =>
                /\ (rl_status' = 200) = (ServedFor(rl_req', rl_route') < 30)
                /\ rl_status' \in {200, 429}) ]_vars

\* C16 witness: the 51st request of a key to /query/cypher was answered 429
\* while the other key had been served there too.
C16_Witness ==
    /\ rl_route = "/api/v1/query/cypher" /\ rl_status = 429
    /\ rl_req = Senders["anon"]
    /\ served[<<"anon", "/api/v1/query/cypher">>] = 50
    /\ <<"keyed", "/api/v1/query/cypher">> \in clients
    /\ served[<<"keyed", "/api/v1/query/cypher">>] > 0

\* C17 (as claimed): with rate limiting enabled, a route without a ceiling of
\* its own serves at most 100 requests of a key in one window.
C17_DefaultCeiling ==
    rate_limit_enabled =>
        \A c \in clients :
            route_limit(c[2]) = 0 => ServedFor(Senders[c[1]], c[2]) <= 100

(***************************************************************************)
(* Claims about CacheService (checked under SpecCache)                     *)
(***************************************************************************)
\* No tuple in the rows of a cached value: it is its own JSON decoding.
JsonNative(v) == \A i \in 1..Len(v.results) : v.results[i] # "tuple"

\* The expiry of an entry as claimed (the override if given, else the
\* configured 3600 s), and as `ttl or cache_ttl` gives it.
ClaimedTtl(o) == IF o.given THEN o.ttl ELSE 3600
TtlOrDefault(o) == IF o.given /\ o.ttl # 0 THEN o.ttl ELSE 3600

\* C20 (as claimed): with the cache enabled, a get on a pair returns the value
\* last set there as long as its TTL (the override if given, else cache_ttl)
\* has not elapsed, and no value once it has; a get on a pair never set
\* returns no value.
C20_RoundTripAndExpiry ==
    [][ (cache_service_get /\ cache_enabled /\ cget'.answered) =>
          IF cget'.key \notin DOMAIN cset
          THEN ~cget'.found
          ELSE LET e == cset[cget'.key]
               IN IF e.age >= ClaimedTtl(e.override)
                  THEN ~cget'.found
                  ELSE cget'.found /\ cget'.value = e.value ]_vars

\* C20 (amended): a get on a pair never set with success returns no value.
\* For a pair whose last set that returned True stored v with expiry
\* `ttl or cache_ttl`: once that expiry has elapsed get returns no value;
\* before, a get the store answers returns the JSON decoding of v, which is v
\* itself when v holds JSON-native values only, and a get the store does not
\* answer returns no value.
C20_DecodedRoundTripAndExpiry ==
    [][ (cache_service_get /\ cache_enabled) =>
          IF cget'.key \notin DOMAIN cset
          THEN ~cget'.found
          ELSE LET e == cset[cget'.key]
               IN IF e.age >= TtlOrDefault(e.override)
                  THEN ~cget'.found
                  ELSE /\ cget'.found = cget'.answered
                       /\ cget'.found =>
                             /\ cget'.value = JsonValue(e.value)
                             /\ (JsonNative(e.value) => cget'.value = e.value) ]_vars

\* C20 witness: a value set with a two-second expiry was read back one second
\* later, while the other pair was never set.
C20_Witness ==
    /\ cget.valid /\ cget.found /\ cget.key \in DOMAIN cset
    /\ cset[cget.key].age = 1 /\ cset[cget.key].override.ttl = 2
    /\ cget.value = cset[cget.key].value
    /\ Cardinality(DOMAIN cset) = 1

(***************************************************************************)
(* Claims about Settings (checked under SpecConfig)                        *)
(***************************************************************************)
\* The values of the secret fields of a configuration.
Secrets(c) ==
    ({c.neo4j_password, c.openai_api_key, c.secret_key, c.redis_password}
        \cup Elements(c.api_keys)) \ {"None", ""}

\* Two configurations that differ in secret fields only.
SameButSecrets(c, d) ==
    c.redis_enabled = d.redis_enabled /\ c.redis_ssl = d.redis_ssl

\* C21: the map get_config_dict returns holds no secret value in any entry,
\* and is the same for every configuration that differs only in a secret.
C21_DumpHoldsNoSecret ==
    config_dict # << >> =>
        /\ \A f \in DOMAIN config_dict :
              Elements(config_dict[f]) \cap Secrets(settings) = {}
        /\ \A d \in Configs :
              SameButSecrets(settings, d) => get_config_dict(d) = config_dict

(***************************************************************************)
(* Claims about TokenManager (checked under SpecToken)                     *)
(***************************************************************************)
\* C22: verify_token on a token create_access_token made from data, called
\* before the token expires and expecting an access token, returns a payload
\* with every entry of data plus type "access", exp and iat; verify_token
\* raises UnauthorizedError on a refresh token when access is expected and on
\* a token whose expiry is in the past.
C22_TokenRoundTrip ==
    [][ verify_encoded_jwt =>
          /\ (/\ encoded_jwt.made = "access" /\ verified'.token_type = "access"
              /\ now <= encoded_jwt.claims["exp"].t)
                => /\ ~verified'.raised
                   /\ \A k \in DOMAIN encoded_jwt.data : verified'.payload[k] = encoded_jwt.data[k]
                   /\ {"exp", "iat", "type"} \subseteq DOMAIN verified'.payload
                   /\ verified'.payload["type"] = "access"
          /\ (encoded_jwt.made = "refresh" /\ verified'.token_type = "access")
                => verified'.raised /\ verified'.error_code = "UNAUTHORIZED"
          /\ now > encoded_jwt.claims["exp"].t
                => verified'.raised /\ verified'.error_code = "UNAUTHORIZED" ]_vars

(***************************************************************************)
(* Claims about the read-only checks (checked under SpecCheck)             *)
(***************************************************************************)
DetachDelete == <<"DETACH", " ", "DELETE">>

\* C23: with read-only mode on, QueryOptimizer.is_read_only answers false with
\* a message naming DETACH DELETE for every text that contains that phrase,
\* and (true, "") for a text with none of the dangerous keywords.
C23_DetachDeleteNamed ==
    (optimizer_verdict.called /\ enable_read_only_mode) =>
        /\ KeywordFound(cypher_text, DetachDelete) =>
              ~optimizer_verdict.ok /\ optimizer_verdict.reason = DetachDelete
        /\ (\A k \in 1..Len(DANGEROUS_KEYWORDS) :
                ~KeywordFound(cypher_text, DANGEROUS_KEYWORDS[k])) =>
              optimizer_verdict.ok /\ optimizer_verdict.reason = NoReason

\* C30: with read-only mode on, QueryOptimizer.is_read_only and
\* CypherValidator.is_read_only return the same verdict for every text.
C30_SameVerdict ==
    (optimizer_verdict.called /\ validator_verdict.called /\ enable_read_only_mode) =>
        optimizer_verdict.ok = validator_verdict.ok

(***************************************************************************)
(* Claims about GraphSchema.find_path (checked under SpecPath)             *)
(***************************************************************************)
\* The labels one step away from a label: the target of each relationship that
\* leaves it, and the source of each bidirectional relationship that enters it.
OneStep(label) ==
    {l \in PathLabels :
        \E r \in DOMAIN schema.relationships :
            LET rel == schema.relationships[r]
            IN \/ rel.source_label = label /\ rel.target_label = l
               \/ rel.target_label = label /\ rel.source_label = l /\ rel.bidirectional}

\* The labels at most n steps away from a label.
RECURSIVE Within(_, _)
Within(label, n) ==
    IF n = 0 THEN {label}
    ELSE Within(label, n - 1) \cup UNION {OneStep(l) : l \in Within(label, n - 1)}

\* C24: find_path(s, t) terminates; it returns None exactly when t cannot be
\* reached from s over the connected-nodes relation; otherwise it returns a
\* list from s to t in which each label is connected to the one before it, and
\* no shorter such list exists.
C24_FindPathShortest ==
    /\ [](fp_pc = "done" =>
            LET s == fp_args[1]
                t == fp_args[2]
                p == fp_result.path
            IN /\ fp_result.found <=> t \in Within(s, Cardinality(PathLabels))
               /\ fp_result.found =>
                     /\ p[1] = s /\ p[Len(p)] = t
                     /\ \A i \in 1..(Len(p) - 1) : p[i + 1] \in OneStep(p[i])
                     /\ \A n \in 0..(Len(p) - 2) : t \notin Within(s, n))
    /\ (fp_pc = "loop" ~> fp_pc = "done")

C24_Witness ==
    /\ fp_pc = "done" /\ fp_result.found /\ Len(fp_result.path) = 3
    /\ \E r \in DOMAIN schema.relationships :
          /\ schema.relationships[r].bidirectional
          /\ schema.relationships[r].source_label = schema.relationships[r].target_label
    /\ \E r \in DOMAIN schema.relationships :
          /\ schema.relationships[r].bidirectional
          /\ schema.relationships[r].target_label = fp_args[1]
          /\ schema.relationships[r].source_label # fp_args[1]

(***************************************************************************)
(* Claims about GraphSchemaBuilder (checked under SpecBuilder)             *)
(***************************************************************************)
\* Every label the schema's relationships, constraints and indexes refer to.
ReferencedLabels ==
    {schema.relationships[r].source_label : r \in DOMAIN schema.relationships}
    \cup {schema.relationships[r].target_label : r \in DOMAIN schema.relationships}
    \cup {schema.constraints[i] : i \in DOMAIN schema.constraints}
    \cup {schema.indexes[i] : i \in DOMAIN schema.indexes}

\* C25: after any sequence of add_node, add_relationship, add_constraint and
\* add_index calls, build() returns the schema only if every label referred to
\* by a relationship, a constraint or an index is a declared node; otherwise
\* it raises.
C25_BuildOnlyConsistent ==
    [][ build =>
          /\ built' \in {"returned", "raised"}
          /\ built' = "returned" <=> ReferencedLabels \subseteq schema.nodes ]_vars

C25_Witness ==
    /\ built = "returned"
    /\ schema.nodes = {"Person", "Company"}
    /\ "WORKS_AT" \in DOMAIN schema.relationships
    /\ schema.relationships["WORKS_AT"].source_label = "Person"
    /\ schema.relationships["WORKS_AT"].target_label = "Company"
    /\ schema.constraints = <<"Person">>
    /\ schema.indexes = <<"Person">>
    /\ add_raised

(***************************************************************************)
(* Claims about the health endpoint (checked under SpecHealth)             *)
(***************************************************************************)
\* C26: the overall status is healthy when the database check and the
\* language-model check both succeed, degraded when exactly one succeeds and
\* unavailable when neither does, whatever the cache check gives.
C26_OverallStatus ==
    health.valid =>
        LET up == {c \in {"neo4j", "llm"} : health[c] = "healthy"}
        IN /\ Cardinality(up) = 2 => health.status = "healthy"
           /\ Cardinality(up) = 1 => health.status = "degraded"
           /\ Cardinality(up) = 0 => health.status = "unavailable"

C26_Witness ==
    /\ health.valid
    /\ health.neo4j = "healthy" /\ health.llm = "unavailable"
    /\ health.cache = "degraded"
    /\ health.status = "degraded"

\* C28: the cache component is reported healthy when the store is reachable or
\* caching is disabled in the configuration, and degraded whenever caching is
\* enabled in the configuration and the store is unreachable, also when the
\* store was already unreachable when the cache service was constructed (the
\* client library being installed).
C28_CacheComponent ==
    [][ (health_check /\ redis_available) =>
          /\ (store_reachable \/ ~redis_enabled) => health'.cache = "healthy"
          /\ (redis_enabled /\ ~store_reachable) => health'.cache = "degraded" ]_vars

(***************************************************************************)
(* Further claims about the engine (checked under SpecEngine)              *)
(***************************************************************************)
\* A step writes the cache: it adds an entry or changes one.
CacheWritten ==
    \E k \in DOMAIN cache' : k \notin DOMAIN cache \/ cache'[k] # cache[k]

\* C27: the cache is written only by a process_natural_query call that had
\* use_cache true, missed the cache and completed every step of the pipeline;
\* a call that raises, a natural call with use_cache false, and every
\* process_cypher_query and validate_query call leave the cache as it was, and
\* a natural call with use_cache false does not read it either.
C27_CacheWrittenOnlyByFullMiss ==
    [][ /\ CacheWritten =>
              /\ kind = "natural" /\ use_cache /\ ~hit
              /\ eret'.kind = "return"
              /\ TraceOps' = <<"cache_get">> \o NaturalOrder
        /\ (kind' \in {"cypher", "validate"} \/ ~use_cache' \/ eret'.kind = "raise")
              => ~CacheWritten
        /\ (kind' = "natural" /\ ~use_cache')
              => \A i \in 1..Len(trace') : trace'[i].op \notin {"cache_get", "cache_set"}
      ]_vars

C27_Witness ==
    /\ kind = "validate" /\ eret.kind = "validated" /\ eret.is_valid
    /\ ~eret.is_read_only
    /\ last.valid /\ last.stored /\ last.key \in DOMAIN cache

\* C29: the used_cache flag in the metadata of a natural-language response is
\* true exactly when the result was served from the cache.
C29_UsedCacheFlag ==
    (kind = "natural" /\ epc = "idle" /\ eret.kind = "return") =>
        \A return_cypher \in BOOLEAN :
            QueryMetadata(eret, return_cypher).used_cache = hit

====
